---- MODULE Spec2Model ----
(***************************************************************************)
(* Batched environments of torchrl/envs/vec_env.py: the orchestrator       *)
(* (ParallelEnv, SerialEnv), the worker command loop                       *)
(* (_run_worker_pipe_shared_mem), the pipes between them and the shared    *)
(* tensordict whose slices are bound one-to-one to the workers.            *)
(***************************************************************************)
EXTENDS Integers, Sequences, FiniteSets, TLC

\* ------------------------------------------------------------------ bounds
NumWorkers == 2

Workers == 0 .. (NumWorkers - 1)
\* the values an action entry takes (0 is the value _create_td leaves)
ActionValues == {1, 2}
\* the root seeds a caller passes to set_seed
Seeds == {10}
\* simulator attributes reachable through __getattr__ forwarding
GenericAttrs == {"custom_method", "custom_attribute"}
\* simulator methods whose name is also a command of the worker loop and is
\* not an attribute of the orchestrator itself
TagNamedAttrs == {"seed", "init"}
\* callable(getattr(self._dummy_env, attr))
callable(attr) == attr \in {"custom_method"} \cup TagNamedAttrs
\* the positional arguments a caller gives to a forwarded method
GenericArgs == {<<7>>}

\* ------------------------------------------------------------- key sets
\* keys of the tensordict built by make_tensordict (one trial reset and step)
BufferKeys == {"action", "observation", "next_observation", "reward", "done"}
\* action_keys: the selected keys that start with "action"
ActionKeys == {key \in BufferKeys : key = "action"}
\* keys of the tensordict returned by env.reset
ResetKeys == {"observation", "done"}
\* keys of the tensordict returned by env.step
StepKeys == {"action", "next_observation", "reward", "done"}

VARIABLES
    variant,            \* "parallel" (ParallelEnv) or "serial" (SerialEnv)
    retry,              \* caller policy: calls again after a broken channel / protocol error
    storage,            \* where _create_td places the buffer: "shared", "memmap", "none"
    dummy_env,          \* self._dummy_env, the trial simulator: "none", "live", "closed"
    config,             \* self.action_keys, self.selected_keys, self.excluded_keys
    is_closed,          \* _BatchedEnv.is_closed
    fatal,              \* a call ended on a broken channel or a protocol error
    opc,                \* position of the calling thread inside the orchestrator
    k,                  \* loop index of the running orchestrator loop
    call,               \* arguments of the running call
    keys,               \* local variable keys of _step / _reset
    ret,                \* outcome of the last call
    shared_tensordicts, \* slice i of shared_tensordict_parent
    child_pipe,         \* commands sent on channel i, not yet received by worker i
    parent_channels,    \* replies sent by worker i, not yet received by the orchestrator
    workers,            \* process i: "none", "alive", "exited", "raised"
    werr,               \* process i: the error that ended it ("": none)
    initialized,        \* local variable initialized of worker i
    wpc,                \* position of worker i: "recv" or the command being serviced
    wdata,              \* local variable data of worker i: the payload received
    env_is_done,        \* env.is_done of simulator i
    env_seed,           \* the seed last given to simulator i by env.set_seed (0: none)
    env_state,          \* env_state[i]: what worker i's env.state_dict() returns
    sent,               \* commands sent to worker i by the body of the running call
    awaiting,           \* reply-bearing commands sent to worker i minus replies received
    nreset,             \* calls of env.reset on simulator i during the running call
    wrote               \* keys written to slice i by its worker / simulator during the call

orchVars == <<variant, retry, storage, dummy_env, config, is_closed, fatal, opc, k, call, keys, ret>>
workerVars == <<workers, werr, initialized, wpc, wdata, env_is_done, env_seed, env_state>>
pipeVars == <<child_pipe, parent_channels>>
histVars == <<sent, awaiting, nreset, wrote>>
vars == <<variant, retry, storage, dummy_env, config, is_closed, fatal, opc, k, call, keys, ret,
          shared_tensordicts, child_pipe, parent_channels,
          workers, werr, initialized, wpc, wdata, env_is_done, env_seed, env_state, sent, awaiting, nreset, wrote>>

\* ------------------------------------------------------------- helpers
Msg(c, d) == [cmd |-> c, data |-> d]
Reply(t, d) == [tag |-> t, data |-> d]

NoCall == [op |-> "none", td |-> <<>>, mask |-> {}]
NoRet == [op |-> "none", status |-> "none", err |-> "", keys |-> {}, mask |-> {},
          value |-> 0]
NoData == [i \in Workers |-> {}]
Zeros == [i \in Workers |-> 0]

\* an OrderedDict: the sequence of its items in insertion order
Item(key, value) == [key |-> key, value |-> value]
HasKey(d, key) == \E j \in DOMAIN d : d[j].key = key
Get(d, key) == d[CHOOSE j \in DOMAIN d : d[j].key = key].value

\* f"worker{idx}"
WorkerKey(i) == "worker" \o ToString(i)

\* the state mapping of a simulator: env.state_dict() returns it and
\* env.load_state_dict(m) replaces it by m
StateValues == 1 .. NumWorkers
SimState(v) == <<Item("param", v)>>
InitialStates == [i \in Workers |-> SimState(i + 1)]
NoKeys == [i \in Workers |-> {}]

\* the slices right after _create_td
NewSlice == [key \in BufferKeys |-> 0]

\* tensordict.update_(td.select(*ks)) on one slice
update_(slice, td, ks) ==
    [key \in BufferKeys |-> IF key \in ks THEN td[key] ELSE slice[key]]

Dead == {"exited", "raised"}

\* ----------------------------------------------------------- simulator
\* env.reset(): a fresh observation; the simulator may report termination
SimReset == {[key \in ResetKeys |-> IF key = "done" THEN d ELSE 1] : d \in {0, 1}}

\* env.step(td): echoes the action, produces next_observation, reward, done
SimStep(a) ==
    {[key \in StepKeys |->
        CASE key = "done" -> d
          [] key = "reward" -> 1
          [] OTHER -> a] : d \in {0, 1}}


\* shared_memory=True (share_memory_()), memmap=True (memmap_()), or neither;
\* both at once is refused by __init__
Storages == {"shared", "memmap", "none"}

\* ---- _BatchedEnv._create_td: the key lists
\* an optional list of keys: None, or the keys it holds
Absent == [given |-> FALSE, keys |-> {}]
Given(ks) == [given |-> TRUE, keys |-> ks]

\* the key lists of an orchestrator constructed without any
DefaultConfig == [action_keys |-> Absent, selected_keys |-> Absent, excluded_keys |-> Absent]

\* _create_td on the key lists c: how it ends, and the key lists it leaves in
\* self (selected_keys is assigned before the action keys are looked at)
create_td(c) ==
    IF c.selected_keys.given
    THEN [status |-> "ok", self |-> c]
    ELSE LET selected == IF c.excluded_keys.given
                         THEN BufferKeys \ c.excluded_keys.keys
                         ELSE BufferKeys
             c1 == [c EXCEPT !.selected_keys = Given(selected)]
             found == {key \in selected : key = "action"}
         IN IF c.action_keys.given
            THEN [status |-> IF c.action_keys.keys \subseteq selected
                             THEN "ok" ELSE "KeyError",
                  self |-> c1]
            ELSE [status |-> IF found # {} THEN "ok" ELSE "RuntimeError",
                  self |-> [c1 EXCEPT !.action_keys = Given(found)]]

\* ------------------------------------------------------------------ Init
\* the state right after __init__: is_closed = True, nothing started
InitCommon ==
    /\ variant \in {"parallel", "serial"}
    /\ dummy_env = "closed"
    /\ is_closed = TRUE
    /\ fatal = FALSE
    /\ opc = "idle"
    /\ k = 0
    /\ call = NoCall
    /\ keys = {}
    /\ ret = NoRet
    /\ shared_tensordicts = [i \in Workers |-> NewSlice]
    /\ child_pipe = [i \in Workers |-> <<>>]
    /\ parent_channels = [i \in Workers |-> <<>>]
    /\ workers = [i \in Workers |-> "none"]
    /\ werr = [i \in Workers |-> ""]
    /\ initialized = [i \in Workers |-> FALSE]
    /\ wpc = [i \in Workers |-> "recv"]
    /\ wdata = NoData
    /\ env_is_done = [i \in Workers |-> FALSE]
    /\ env_seed = Zeros
    /\ env_state = InitialStates
    /\ sent = Zeros
    /\ awaiting = Zeros
    /\ nreset = Zeros
    /\ wrote = NoKeys

\* the placements the orchestrator is constructed with here: the default
\* (shared memory) and none; a memory-mapped buffer passes the same test of
\* the worker (is_shared() or is_memmap()) and is otherwise not told apart
ConfiguredStorages == {"shared", "none"}

Init == InitCommon /\ retry = FALSE /\ storage \in ConfiguredStorages /\ config = DefaultConfig

\* the caller abandons the orchestrator after a broken channel or a protocol
\* error unless its policy is to retry
CallerMayCall == opc = "idle" /\ (~fatal \/ retry)

\* ------------------------------------------------- lazy start (_check_start)
startVars == <<is_closed, config, shared_tensordicts, child_pipe, parent_channels,
               workers, werr, initialized, wpc, wdata, env_is_done, env_seed, env_state, awaiting>>

\* channel.send(("init", shared_tensordict)): slice i, placed as _create_td left it
InitData(i, st) == [slice |-> i, storage |-> st]
InitMsg(i) == Msg("init", InitData(i, storage))

\* ParallelEnv._start_workers after _create_td: one process and one pipe per
\* worker, then ("init", shared_tensordict) on every channel
start_workers ==
    /\ create_td(config).status = "ok"
    /\ config' = create_td(config).self
    /\ shared_tensordicts' = [i \in Workers |-> NewSlice]
    /\ workers' = [i \in Workers |-> "alive"]
    /\ werr' = [i \in Workers |-> ""]
    /\ initialized' = [i \in Workers |-> FALSE]
    /\ wpc' = [i \in Workers |-> "recv"]
    /\ wdata' = NoData
    /\ env_is_done' = [i \in Workers |-> FALSE]
    /\ env_seed' = Zeros
    /\ env_state' = InitialStates
    /\ child_pipe' = [i \in Workers |-> <<InitMsg(i)>>]
    /\ parent_channels' = [i \in Workers |-> <<>>]
    /\ awaiting' = Zeros
    /\ is_closed' = FALSE

\* a decorator that never starts anything
check_start_never == UNCHANGED startVars

check_start == IF is_closed THEN start_workers ELSE UNCHANGED startVars

\* _check_start of SerialEnv: _create_td and _start_workers on the first call
serial_start ==
    /\ is_closed' = FALSE
    /\ IF is_closed
       THEN create_td(config).status = "ok" /\ config' = create_td(config).self
       ELSE config' = config

\* a new call forgets the bookkeeping of the previous one
NewCall == /\ k' = 0
           /\ keys' = {}
           /\ sent' = Zeros
           /\ nreset' = Zeros
           /\ wrote' = NoKeys

\* the call op raises err to the caller
RaiseOp(op, mask, err, isFatal) ==
    /\ opc' = "idle"
    /\ ret' = [op |-> op, status |-> "raised", err |-> err,
               keys |-> {}, mask |-> mask, value |-> 0]
    /\ fatal' = (fatal \/ isFatal)
    /\ call' = NoCall

\* the running call raises err to the caller
Raise(err, isFatal) == RaiseOp(call.op, call.mask, err, isFatal)

\* _check_start on an orchestrator that is not started and whose _create_td
\* raises: the call op ends there, with the key lists _create_td has assigned
Start_refused(op) ==
    /\ CallerMayCall
    /\ is_closed
    /\ create_td(config).status # "ok"
    /\ config' = create_td(config).self
    /\ RaiseOp(op, Workers, create_td(config).status, FALSE)
    /\ UNCHANGED <<variant, retry, storage, dummy_env, is_closed, k, keys, shared_tensordicts,
                   pipeVars, workerVars, histVars>>

\* the call proceeds into its body
Enter(op, td, mask, next_opc) ==
    /\ opc' = next_opc
    /\ call' = [op |-> op, td |-> td, mask |-> mask]
    /\ ret' = NoRet
    /\ fatal' = fatal

\* the call returns to the caller a tensordict with keys ks, or the value v
ReturnValue(ks, v) ==
    /\ opc' = "idle"
    /\ ret' = [op |-> call.op, status |-> "ok", err |-> "",
               keys |-> ks, mask |-> call.mask, value |-> v]
    /\ fatal' = fatal
    /\ call' = NoCall

Return(ks) == ReturnValue(ks, 0)

\* channel.send(msg) on the parent end of channel i
Send(i, c, d) ==
    /\ child_pipe' = [child_pipe EXCEPT ![i] = Append(@, Msg(c, d))]
    /\ sent' = [sent EXCEPT ![i] = @ + 1]
    /\ awaiting' = [awaiting EXCEPT ![i] = @ + 1]

\* channel.recv() on the parent end of channel i returns a message or, once
\* the worker is gone and nothing is left to read, raises EOFError
CanRecv(i) == parent_channels[i] # <<>> \/ workers[i] \in Dead
Eof(i) == parent_channels[i] = <<>>
Recv(i) ==
    /\ parent_channels' = [parent_channels EXCEPT ![i] = Tail(@)]
    /\ awaiting' = [awaiting EXCEPT ![i] = @ - 1]

NextIndex(next_opc) ==
    /\ k' = IF k + 1 = NumWorkers THEN 0 ELSE k + 1
    /\ opc' = IF k + 1 = NumWorkers THEN next_opc ELSE opc


\* ============================================================ the worker
\* _run_worker_pipe_shared_mem: the process of worker i

\* an uncaught exception ends the process; what it had not read is lost
WorkerRaises(i, err) ==
    /\ workers' = [workers EXCEPT ![i] = "raised"]
    /\ werr' = [werr EXCEPT ![i] = err]
    /\ wpc' = [wpc EXCEPT ![i] = "recv"]
    /\ wdata' = [wdata EXCEPT ![i] = {}]
    /\ child_pipe' = [child_pipe EXCEPT ![i] = <<>>]
    /\ UNCHANGED <<parent_channels, initialized, env_is_done, env_seed, env_state,
                   shared_tensordicts, nreset, wrote>>

\* a worker that takes the newest command of its channel instead of the oldest
Worker_recv_newest(i) ==
    /\ workers[i] = "alive"
    /\ wpc[i] = "recv"
    /\ child_pipe[i] # <<>>
    /\ wpc' = [wpc EXCEPT ![i] = child_pipe[i][Len(child_pipe[i])].cmd]
    /\ wdata' = [wdata EXCEPT ![i] = child_pipe[i][Len(child_pipe[i])].data]
    /\ child_pipe' = [child_pipe EXCEPT ![i] = SubSeq(@, 1, Len(@) - 1)]
    /\ UNCHANGED <<orchVars, histVars, shared_tensordicts, parent_channels,
                   workers, werr, initialized, env_is_done, env_seed, env_state>>

\* cmd, data = child_pipe.recv()
Worker_recv(i) ==
    /\ workers[i] = "alive"
    /\ wpc[i] = "recv"
    /\ child_pipe[i] # <<>>
    /\ wpc' = [wpc EXCEPT ![i] = Head(child_pipe[i]).cmd]
    /\ wdata' = [wdata EXCEPT ![i] = Head(child_pipe[i]).data]
    /\ child_pipe' = [child_pipe EXCEPT ![i] = Tail(@)]
    /\ UNCHANGED <<orchVars, histVars, shared_tensordicts, parent_channels,
                   workers, werr, initialized, env_is_done, env_seed, env_state>>

\* RuntimeError("tensordict must be placed in shared memory (share_memory_() or memmap_())")
StorageError == "tensordict must be placed in shared memory"

\* tensordict.is_shared() or tensordict.is_memmap()
is_shared_or_memmap(data) == data.storage \in {"shared", "memmap"}

\* a worker that accepts "init" in any state
Worker_init_again(i) ==
    /\ workers[i] = "alive"
    /\ wpc[i] = "init"
    /\ IF ~is_shared_or_memmap(wdata[i])
       THEN WorkerRaises(i, StorageError)
       ELSE /\ initialized' = [initialized EXCEPT ![i] = TRUE]
            /\ wpc' = [wpc EXCEPT ![i] = "recv"]
            /\ wdata' = [wdata EXCEPT ![i] = {}]
            /\ UNCHANGED <<workers, werr, child_pipe, parent_channels, env_is_done,
                           env_seed, env_state, shared_tensordicts, nreset, wrote>>
    /\ UNCHANGED <<orchVars, sent, awaiting>>

\* a worker that binds whatever tensordict it is handed
Worker_init_any_storage(i) ==
    /\ workers[i] = "alive"
    /\ wpc[i] = "init"
    /\ IF initialized[i]
       THEN WorkerRaises(i, "worker already initialized")
       ELSE /\ initialized' = [initialized EXCEPT ![i] = TRUE]
            /\ wpc' = [wpc EXCEPT ![i] = "recv"]
            /\ wdata' = [wdata EXCEPT ![i] = {}]
            /\ UNCHANGED <<workers, werr, child_pipe, parent_channels, env_is_done,
                           env_seed, env_state, shared_tensordicts, nreset, wrote>>
    /\ UNCHANGED <<orchVars, sent, awaiting>>

\* cmd == "init": bind the shared slice; no reply is sent
Worker_init(i) ==
    /\ workers[i] = "alive"
    /\ wpc[i] = "init"
    /\ IF initialized[i]
       THEN WorkerRaises(i, "worker already initialized")
       ELSE IF ~is_shared_or_memmap(wdata[i])
       THEN WorkerRaises(i, StorageError)
       ELSE /\ initialized' = [initialized EXCEPT ![i] = TRUE]
            /\ wpc' = [wpc EXCEPT ![i] = "recv"]
            /\ wdata' = [wdata EXCEPT ![i] = {}]
            /\ UNCHANGED <<workers, werr, child_pipe, parent_channels, env_is_done, env_seed, env_state,
                           shared_tensordicts, nreset, wrote>>
    /\ UNCHANGED <<orchVars, sent, awaiting>>

\* cmd == "reset": env.reset, write the slice, reply ("reset_obs", keys)
Worker_reset(i) ==
    /\ workers[i] = "alive"
    /\ wpc[i] = "reset"
    /\ IF ~initialized[i]
       THEN WorkerRaises(i, "call 'init' before resetting")
       ELSE \E td \in SimReset :
            /\ shared_tensordicts' =
                   [shared_tensordicts EXCEPT ![i] = update_(@, td, DOMAIN td)]
            /\ env_is_done' = [env_is_done EXCEPT ![i] = (td["done"] = 1)]
            /\ UNCHANGED <<env_seed, env_state>>
            /\ parent_channels' =
                   [parent_channels EXCEPT ![i] = Append(@, Reply("reset_obs", DOMAIN td))]
            /\ nreset' = [nreset EXCEPT ![i] = @ + 1]
            /\ wrote' = [wrote EXCEPT ![i] = DOMAIN td]
            /\ wpc' = [wpc EXCEPT ![i] = "reset_sent"]
            /\ wdata' = [wdata EXCEPT ![i] = {}]
            /\ UNCHANGED <<workers, werr, initialized, child_pipe>>
    /\ UNCHANGED <<orchVars, sent, awaiting>>

\* after the reply to "reset": if env.is_done: raise
Worker_reset_sent(i) ==
    /\ workers[i] = "alive"
    /\ wpc[i] = "reset_sent"
    /\ IF env_is_done[i]
       THEN WorkerRaises(i, "is_done after reset")
       ELSE /\ wpc' = [wpc EXCEPT ![i] = "recv"]
            /\ wdata' = [wdata EXCEPT ![i] = {}]
            /\ UNCHANGED <<workers, werr, child_pipe, parent_channels, initialized,
                           env_is_done, env_seed, env_state, shared_tensordicts, nreset, wrote>>
    /\ UNCHANGED <<orchVars, sent, awaiting>>

\* a worker that reports every key of the step result
StepAllKeys(td) == DOMAIN td

\* a worker that never reports termination
StepReplyTagAlways(td) == "step_result"

\* keys = set(_td.keys()) - {key for key in action_keys}
StepUpdatedKeys(td) == DOMAIN td \ ActionKeys

\* msg = "done" if _td.get("done") else "step_result"
StepReplyTag(td) == IF td["done"] = 1 THEN "done" ELSE "step_result"

\* a worker that writes the step result into its neighbour's slice
Worker_step_other_slice(i) ==
    /\ workers[i] = "alive"
    /\ wpc[i] = "step"
    /\ IF ~initialized[i] \/ env_is_done[i]
       THEN WorkerRaises(i, IF ~initialized[i] THEN "called 'init' before step"
                            ELSE "calling step when env is done")
       ELSE \E td \in SimStep(shared_tensordicts[i]["action"]) :
            /\ shared_tensordicts' =
                   [shared_tensordicts EXCEPT
                       ![(i + 1) % NumWorkers] = update_(@, td, DOMAIN td \ ActionKeys)]
            /\ env_is_done' = [env_is_done EXCEPT ![i] = (td["done"] = 1)]
            /\ UNCHANGED <<env_seed, env_state>>
            /\ parent_channels' =
                   [parent_channels EXCEPT
                       ![i] = Append(@, Reply("step_result", DOMAIN td \ ActionKeys))]
            /\ wrote' = [wrote EXCEPT ![i] = DOMAIN td \ ActionKeys]
            /\ wpc' = [wpc EXCEPT ![i] = "recv"]
            /\ wdata' = [wdata EXCEPT ![i] = {}]
            /\ UNCHANGED <<workers, werr, initialized, child_pipe, nreset>>
    /\ UNCHANGED <<orchVars, sent, awaiting>>

\* a worker that steps its simulator whether or not it is terminated
Worker_step_when_done(i) ==
    /\ workers[i] = "alive"
    /\ wpc[i] = "step"
    /\ IF ~initialized[i]
       THEN WorkerRaises(i, "called 'init' before step")
       ELSE \E td \in SimStep(shared_tensordicts[i]["action"]) :
            /\ shared_tensordicts' =
                   [shared_tensordicts EXCEPT ![i] = update_(@, td, StepUpdatedKeys(td))]
            /\ env_is_done' = [env_is_done EXCEPT ![i] = (td["done"] = 1)]
            /\ UNCHANGED <<env_seed, env_state>>
            /\ parent_channels' =
                   [parent_channels EXCEPT
                       ![i] = Append(@, Reply(StepReplyTag(td), StepUpdatedKeys(td)))]
            /\ wrote' = [wrote EXCEPT ![i] = StepUpdatedKeys(td)]
            /\ wpc' = [wpc EXCEPT ![i] = "recv"]
            /\ wdata' = [wdata EXCEPT ![i] = {}]
            /\ UNCHANGED <<workers, werr, initialized, child_pipe, nreset>>
    /\ UNCHANGED <<orchVars, sent, awaiting>>

\* cmd == "step": read the action of the slice, env.step, write back, reply
Worker_step(i) ==
    /\ workers[i] = "alive"
    /\ wpc[i] = "step"
    /\ IF ~initialized[i] \/ env_is_done[i]
       THEN WorkerRaises(i, IF ~initialized[i] THEN "called 'init' before step"
                            ELSE "calling step when env is done")
       ELSE \E td \in SimStep(shared_tensordicts[i]["action"]) :
            /\ shared_tensordicts' =
                   [shared_tensordicts EXCEPT ![i] = update_(@, td, StepUpdatedKeys(td))]
            /\ env_is_done' = [env_is_done EXCEPT ![i] = (td["done"] = 1)]
            /\ UNCHANGED <<env_seed, env_state>>
            /\ parent_channels' =
                   [parent_channels EXCEPT
                       ![i] = Append(@, Reply(StepReplyTag(td), StepUpdatedKeys(td)))]
            /\ wrote' = [wrote EXCEPT ![i] = StepUpdatedKeys(td)]
            /\ wpc' = [wpc EXCEPT ![i] = "recv"]
            /\ wdata' = [wdata EXCEPT ![i] = {}]
            /\ UNCHANGED <<workers, werr, initialized, child_pipe, nreset>>
    /\ UNCHANGED <<orchVars, sent, awaiting>>

\* cmd == "close": env.close(); del env; reply ("closing", None)
Worker_close(i) ==
    /\ workers[i] = "alive"
    /\ wpc[i] = "close"
    /\ IF ~initialized[i]
       THEN WorkerRaises(i, "call 'init' before closing")
       ELSE /\ parent_channels' =
                   [parent_channels EXCEPT ![i] = Append(@, Reply("closing", {}))]
            /\ wpc' = [wpc EXCEPT ![i] = "closing"]
            /\ wdata' = [wdata EXCEPT ![i] = {}]
            /\ UNCHANGED <<workers, werr, child_pipe, initialized, env_is_done, env_seed, env_state,
                           shared_tensordicts, nreset, wrote>>
    /\ UNCHANGED <<orchVars, sent, awaiting>>

\* after the reply to "close": child_pipe.close(); break; the process ends
Worker_exit(i) ==
    /\ workers[i] = "alive"
    /\ wpc[i] = "closing"
    /\ workers' = [workers EXCEPT ![i] = "exited"]
    /\ werr' = werr
    /\ wpc' = [wpc EXCEPT ![i] = "recv"]
    /\ child_pipe' = [child_pipe EXCEPT ![i] = <<>>]
    /\ UNCHANGED <<orchVars, histVars, shared_tensordicts, parent_channels,
                   initialized, wdata, env_is_done, env_seed, env_state>>


\* a seed handler that sends no reply
Worker_seed_no_reply(i) ==
    /\ workers[i] = "alive"
    /\ wpc[i] = "seed"
    /\ wpc' = [wpc EXCEPT ![i] = "recv"]
    /\ wdata' = [wdata EXCEPT ![i] = {}]
    /\ UNCHANGED <<workers, werr, initialized, child_pipe, env_is_done, env_seed, env_state, parent_channels,
                   shared_tensordicts, nreset, wrote>>
    /\ UNCHANGED <<orchVars, sent, awaiting>>

\* cmd == "seed": env.set_seed(data), reply ("seeded", None)
Worker_seed(i) ==
    /\ workers[i] = "alive"
    /\ wpc[i] = "seed"
    /\ IF ~initialized[i]
       THEN WorkerRaises(i, "call 'init' before closing")
       ELSE /\ env_seed' = [env_seed EXCEPT ![i] = wdata[i]]
            /\ parent_channels' =
                   [parent_channels EXCEPT ![i] = Append(@, Reply("seeded", {}))]
            /\ wpc' = [wpc EXCEPT ![i] = "recv"]
            /\ wdata' = [wdata EXCEPT ![i] = {}]
            /\ UNCHANGED <<workers, werr, initialized, child_pipe, env_is_done,
                           env_state, shared_tensordicts, nreset, wrote>>
    /\ UNCHANGED <<orchVars, sent, awaiting>>

\* a worker whose simulator forgets the mapping it is given and falls back to
\* one fixed state
Worker_load_state_dict_forgets(i) ==
    /\ workers[i] = "alive"
    /\ wpc[i] = "load_state_dict"
    /\ env_state' = [env_state EXCEPT ![i] = SimState(1)]
    /\ parent_channels' = [parent_channels EXCEPT ![i] = Append(@, Reply("loaded", {}))]
    /\ wpc' = [wpc EXCEPT ![i] = "recv"]
    /\ wdata' = [wdata EXCEPT ![i] = {}]
    /\ UNCHANGED <<workers, werr, initialized, child_pipe, env_is_done, env_seed,
                   shared_tensordicts, nreset, wrote>>
    /\ UNCHANGED <<orchVars, sent, awaiting>>

\* cmd == "load_state_dict": env.load_state_dict(data), reply ("loaded", None)
Worker_load_state_dict(i) ==
    /\ workers[i] = "alive"
    /\ wpc[i] = "load_state_dict"
    /\ env_state' = [env_state EXCEPT ![i] = wdata[i]]
    /\ parent_channels' = [parent_channels EXCEPT ![i] = Append(@, Reply("loaded", {}))]
    /\ wpc' = [wpc EXCEPT ![i] = "recv"]
    /\ wdata' = [wdata EXCEPT ![i] = {}]
    /\ UNCHANGED <<workers, werr, initialized, child_pipe, env_is_done, env_seed,
                   shared_tensordicts, nreset, wrote>>
    /\ UNCHANGED <<orchVars, sent, awaiting>>

\* cmd == "state_dict": reply ("state_dict", env.state_dict())
Worker_state_dict(i) ==
    /\ workers[i] = "alive"
    /\ wpc[i] = "state_dict"
    /\ parent_channels' =
           [parent_channels EXCEPT ![i] = Append(@, Reply("state_dict", env_state[i]))]
    /\ wpc' = [wpc EXCEPT ![i] = "recv"]
    /\ wdata' = [wdata EXCEPT ![i] = {}]
    /\ UNCHANGED <<workers, werr, initialized, child_pipe, env_is_done, env_seed, env_state,
                   shared_tensordicts, nreset, wrote>>
    /\ UNCHANGED <<orchVars, sent, awaiting>>

\* the commands the loop knows by name; any other cmd is an attribute of env
ProtocolCmds == {"seed", "init", "reset", "step", "close", "load_state_dict",
                 "state_dict"}

\* attr = getattr(env, cmd); result = attr(*args, **kwargs) if callable(attr)
\* else attr: the value names the simulator it comes from and what it was given
getattr_result(i, attr, args) ==
    [worker |-> i, attr |-> attr, args |-> IF callable(attr) THEN args ELSE <<>>]

\* a worker that goes on after an exception of its simulator
Worker_getattr_survives(i) ==
    /\ workers[i] = "alive"
    /\ wpc[i] \notin ProtocolCmds \cup {"recv", "reset_sent", "closing"}
    /\ \E raises \in BOOLEAN :
        /\ parent_channels' =
               IF raises THEN parent_channels
               ELSE [parent_channels EXCEPT ![i] =
                         Append(@, Reply(wpc[i] \o "_done", getattr_result(i, wpc[i], wdata[i])))]
        /\ wpc' = [wpc EXCEPT ![i] = "recv"]
        /\ wdata' = [wdata EXCEPT ![i] = {}]
        /\ UNCHANGED <<workers, werr, initialized, child_pipe, env_is_done, env_seed, env_state,
                       shared_tensordicts, nreset, wrote>>
    /\ UNCHANGED <<orchVars, sent, awaiting>>

\* else: getattr(env, cmd), called if callable; an exception inside is
\* re-raised as RuntimeError; otherwise reply (cmd + "_done", result)
Worker_getattr(i) ==
    /\ workers[i] = "alive"
    /\ wpc[i] \notin ProtocolCmds \cup {"recv", "reset_sent", "closing"}
    /\ \E raises \in BOOLEAN :
        IF raises
        THEN WorkerRaises(i, "querying " \o wpc[i] \o " from env resulted in the following error")
        ELSE /\ parent_channels' =
                    [parent_channels EXCEPT ![i] =
                         Append(@, Reply(wpc[i] \o "_done", getattr_result(i, wpc[i], wdata[i])))]
             /\ wpc' = [wpc EXCEPT ![i] = "recv"]
             /\ wdata' = [wdata EXCEPT ![i] = {}]
             /\ UNCHANGED <<workers, werr, initialized, child_pipe, env_is_done, env_seed, env_state,
                            shared_tensordicts, nreset, wrote>>
    /\ UNCHANGED <<orchVars, sent, awaiting>>

\* ===================================== the worker loop under any command order
\* _run_worker_pipe_shared_mem takes the two ends of a pipe; whatever holds
\* the parent end may send it any command in any order
MaxCommands == 3
\* the worker that is sent arbitrary commands
DrivenWorker == 0

\* the payloads that may be sent along with the command cmd
PayloadOf(cmd) ==
    CASE cmd = "seed" -> {10}
      [] cmd = "init" -> {InitData(DrivenWorker, st) : st \in Storages}
      [] cmd = "load_state_dict" -> {SimState(v) : v \in StateValues}
      [] cmd \in GenericAttrs -> GenericArgs
      [] OTHER -> {{}}

\* the state after the processes are spawned and before anything is sent
InitWorker ==
    /\ variant = "parallel"
    /\ retry = FALSE
    /\ storage = "shared"
    /\ dummy_env = "closed"
    /\ config = create_td(DefaultConfig).self
    /\ is_closed = FALSE
    /\ fatal = FALSE
    /\ opc = "idle"
    /\ k = 0
    /\ call = NoCall
    /\ keys = {}
    /\ ret = NoRet
    /\ shared_tensordicts = [i \in Workers |-> NewSlice]
    /\ child_pipe = [i \in Workers |-> <<>>]
    /\ parent_channels = [i \in Workers |-> <<>>]
    /\ workers = [i \in Workers |-> "alive"]
    /\ werr = [i \in Workers |-> ""]
    /\ initialized = [i \in Workers |-> FALSE]
    /\ wpc = [i \in Workers |-> "recv"]
    /\ wdata = NoData
    /\ env_is_done = [i \in Workers |-> FALSE]
    /\ env_seed = Zeros
    /\ env_state = InitialStates
    /\ sent = Zeros
    /\ awaiting = Zeros
    /\ nreset = Zeros
    /\ wrote = NoKeys

\* parent_pipe.send((cmd, data)) by the holder of the parent end
Peer_send(cmd) ==
    /\ sent[DrivenWorker] < MaxCommands
    /\ workers[DrivenWorker] = "alive"
    /\ \E data \in PayloadOf(cmd) : Send(DrivenWorker, cmd, data)
    /\ UNCHANGED <<orchVars, workerVars, shared_tensordicts, parent_channels,
                   nreset, wrote>>

\* parent_pipe.recv() by the holder of the parent end
Peer_recv ==
    /\ parent_channels[DrivenWorker] # <<>>
    /\ Recv(DrivenWorker)
    /\ UNCHANGED <<orchVars, workerVars, shared_tensordicts, child_pipe,
                   sent, nreset, wrote>>

\* ================================================= ParallelEnv, the caller's thread
\* the action batches a caller passes to step: one action per worker, the
\* actions of neighbouring workers differing
ActionBatches ==
    {[i \in Workers |-> [key \in ActionKeys |-> 1 + ((i + b) % 2)]] : b \in {0, 1}}

\* a batch with one action too few: batch_size [NumWorkers - 1]
BadBatches == {[i \in 0..(NumWorkers - 2) |-> [key \in ActionKeys |-> 1]]}

\* a batch that carries, next to the actions, the observation the policy read
FullBatches ==
    {[i \in Workers |-> [key \in ActionKeys \cup {"observation"} |->
                             IF key \in ActionKeys THEN 1 + (i % 2) ELSE 2]]}

\* the batches a caller may pass to step
StepBatches == ActionBatches \cup FullBatches \cup BadBatches

\* _assert_tensordict_shape: the leading shape of the batch is [num_workers]
assert_tensordict_shape(td) == DOMAIN td = Workers

\* a step that never validates its batch
Parallel_step_call_unchecked(td, shape_ok) ==
    /\ variant = "parallel"
    /\ CallerMayCall
    /\ check_start
    /\ NewCall
    /\ Enter("step", td, Workers, "step_update")
    /\ UNCHANGED <<variant, retry, storage, dummy_env>>

\* ---- ParallelEnv._step
\* @_check_start, then self._assert_tensordict_shape(tensordict)
Parallel_step_call(td, shape_ok) ==
    /\ variant = "parallel"
    /\ CallerMayCall
    /\ check_start
    /\ NewCall
    /\ IF shape_ok
       THEN Enter("step", td, Workers, "step_update")
       ELSE RaiseOp("step", DOMAIN td, "shape", FALSE)
    /\ UNCHANGED <<variant, retry, storage, dummy_env>>

\* a step that sends without writing the actions
Parallel_step_no_update ==
    /\ opc = "step_update"
    /\ opc' = "step_send"
    /\ UNCHANGED <<variant, retry, storage, dummy_env, config, is_closed, fatal, k, call, keys, ret,
                   shared_tensordicts, pipeVars, workerVars, histVars>>

\* self.shared_tensordict_parent.update_(tensordict.select(*self.action_keys))
Parallel_step_update ==
    /\ opc = "step_update"
    /\ shared_tensordicts' =
           [i \in Workers |-> update_(shared_tensordicts[i], call.td[i], ActionKeys)]
    /\ opc' = "step_send"
    /\ UNCHANGED <<variant, retry, storage, dummy_env, config, is_closed, fatal, k, call, keys, ret,
                   pipeVars, workerVars, histVars>>

\* a step that starts collecting after the first send
Parallel_step_send_one ==
    /\ opc = "step_send"
    /\ IF workers[k] \in Dead
       THEN /\ Raise("BrokenPipeError", TRUE)
            /\ UNCHANGED <<k, child_pipe, sent, awaiting>>
       ELSE /\ Send(k, "step", {})
            /\ k' = 0
            /\ opc' = "step_recv"
            /\ UNCHANGED <<call, ret, fatal>>
    /\ UNCHANGED <<variant, retry, storage, dummy_env, config, is_closed, keys, shared_tensordicts,
                   parent_channels, workerVars, nreset, wrote>>

\* for i in range(self.num_workers): self.parent_channels[i].send(("step", None))
Parallel_step_send ==
    /\ opc = "step_send"
    /\ IF workers[k] \in Dead
       THEN /\ Raise("BrokenPipeError", TRUE)
            /\ UNCHANGED <<k, child_pipe, sent, awaiting>>
       ELSE /\ Send(k, "step", {})
            /\ NextIndex("step_recv")
            /\ UNCHANGED <<call, ret, fatal>>
    /\ UNCHANGED <<variant, retry, storage, dummy_env, config, is_closed, keys, shared_tensordicts,
                   parent_channels, workerVars, nreset, wrote>>

\* if msg != "step_result": if msg != "done": raise
StepTagAccepted(tag) == tag \in {"step_result", "done"}

\* msg, data = self.parent_channels[i].recv(); keys = keys.union(data);
\* after the last worker: return self.shared_tensordict_parent.select(*keys)
Parallel_step_recv ==
    /\ opc = "step_recv"
    /\ CanRecv(k)
    /\ IF Eof(k)
       THEN /\ Raise("EOFError", TRUE)
            /\ UNCHANGED <<k, keys, parent_channels, awaiting>>
       ELSE LET m == Head(parent_channels[k]) IN
            /\ Recv(k)
            /\ IF ~StepTagAccepted(m.tag)
               THEN Raise("protocol", TRUE) /\ UNCHANGED <<k, keys>>
               ELSE IF k + 1 = NumWorkers
                    THEN Return(keys \cup m.data) /\ k' = 0 /\ keys' = {}
                    ELSE /\ keys' = keys \cup m.data
                         /\ k' = k + 1
                         /\ UNCHANGED <<opc, call, ret, fatal>>
    /\ UNCHANGED <<variant, retry, storage, dummy_env, config, is_closed, shared_tensordicts, child_pipe,
                   workerVars, sent, nreset, wrote>>

\* ---- ParallelEnv._reset
\* the masks a caller passes as "reset_workers" (no mask: every worker)
ResetMasks == SUBSET Workers

Parallel_reset_call(mask) ==
    /\ variant = "parallel"
    /\ CallerMayCall
    /\ check_start
    /\ NewCall
    /\ Enter("reset", <<>>, mask, "reset_send")
    /\ UNCHANGED <<variant, retry, storage, dummy_env>>

\* a reset that sends to every worker whatever the mask
Parallel_reset_send_all ==
    /\ opc = "reset_send"
    /\ IF workers[k] \in Dead
       THEN /\ Raise("BrokenPipeError", TRUE)
            /\ UNCHANGED <<k, child_pipe, sent, awaiting>>
       ELSE /\ Send(k, "reset", {})
            /\ NextIndex("reset_recv")
            /\ UNCHANGED <<call, ret, fatal>>
    /\ UNCHANGED <<variant, retry, storage, dummy_env, config, is_closed, keys, shared_tensordicts,
                   parent_channels, workerVars, nreset, wrote>>

\* for i, channel: if not reset_workers[i]: continue; channel.send(("reset", kwargs))
Parallel_reset_send ==
    /\ opc = "reset_send"
    /\ IF k \notin call.mask
       THEN /\ NextIndex("reset_recv")
            /\ UNCHANGED <<call, ret, fatal, child_pipe, sent, awaiting>>
       ELSE IF workers[k] \in Dead
            THEN /\ Raise("BrokenPipeError", TRUE)
                 /\ UNCHANGED <<k, child_pipe, sent, awaiting>>
            ELSE /\ Send(k, "reset", {})
                 /\ NextIndex("reset_recv")
                 /\ UNCHANGED <<call, ret, fatal>>
    /\ UNCHANGED <<variant, retry, storage, dummy_env, config, is_closed, keys, shared_tensordicts,
                   parent_channels, workerVars, nreset, wrote>>

\* cmd_in, new_keys = channel.recv(); keys = keys.union(new_keys);
\* if cmd_in != "reset_obs": raise
Parallel_reset_recv ==
    /\ opc = "reset_recv"
    /\ k \notin call.mask \/ CanRecv(k)
    /\ IF k \notin call.mask
       THEN /\ NextIndex("reset_check")
            /\ UNCHANGED <<call, ret, fatal, keys, parent_channels, awaiting>>
       ELSE IF Eof(k)
            THEN /\ Raise("EOFError", TRUE)
                 /\ UNCHANGED <<k, keys, parent_channels, awaiting>>
            ELSE LET m == Head(parent_channels[k]) IN
                 /\ Recv(k)
                 /\ IF m.tag # "reset_obs"
                    THEN Raise("protocol", TRUE) /\ UNCHANGED <<k, keys>>
                    ELSE /\ keys' = keys \cup m.data
                         /\ NextIndex("reset_check")
                         /\ UNCHANGED <<call, ret, fatal>>
    /\ UNCHANGED <<variant, retry, storage, dummy_env, config, is_closed, shared_tensordicts, child_pipe,
                   workerVars, sent, nreset, wrote>>

\* self.shared_tensordict_parent.get("done").any()
ResetSeesDone == \E i \in Workers : shared_tensordicts[i]["done"] = 1

\* a _reset that returns the buffer without looking at "done"
Parallel_reset_unchecked ==
    /\ opc = "reset_check"
    /\ Return(keys)
    /\ k' = 0
    /\ keys' = {}
    /\ UNCHANGED <<variant, retry, storage, dummy_env, config, is_closed, shared_tensordicts, pipeVars,
                   workerVars, histVars>>

\* if ...get("done").any(): raise; return ...select(*keys).clone()
Parallel_reset_check ==
    /\ opc = "reset_check"
    /\ IF ResetSeesDone
       THEN Raise("still done", FALSE)
       ELSE Return(keys)
    /\ k' = 0
    /\ keys' = {}
    /\ UNCHANGED <<variant, retry, storage, dummy_env, config, is_closed, shared_tensordicts, pipeVars,
                   workerVars, histVars>>


\* ---- ParallelEnv.set_seed
Parallel_set_seed_call(seed) ==
    /\ variant = "parallel"
    /\ CallerMayCall
    /\ check_start
    /\ NewCall
    /\ Enter("set_seed", seed, Workers, "seed_send")
    /\ UNCHANGED <<variant, retry, storage, dummy_env>>

\* a set_seed that sends the same seed to every worker
Parallel_set_seed_send_same ==
    /\ opc = "seed_send"
    /\ IF workers[k] \in Dead
       THEN /\ Raise("BrokenPipeError", TRUE)
            /\ UNCHANGED <<k, child_pipe, sent, awaiting>>
       ELSE /\ Send(k, "seed", call.td)
            /\ NextIndex("seed_recv")
            /\ UNCHANGED <<call, ret, fatal>>
    /\ UNCHANGED <<variant, retry, storage, dummy_env, config, is_closed, keys, shared_tensordicts,
                   parent_channels, workerVars, nreset, wrote>>

\* channel.send(("seed", seed)); if i < self.num_workers - 1: seed = seed + 1
Parallel_set_seed_send ==
    /\ opc = "seed_send"
    /\ IF workers[k] \in Dead
       THEN /\ Raise("BrokenPipeError", TRUE)
            /\ UNCHANGED <<k, child_pipe, sent, awaiting>>
       ELSE /\ Send(k, "seed", call.td)
            /\ NextIndex("seed_recv")
            /\ call' = [call EXCEPT !.td = IF k < NumWorkers - 1 THEN @ + 1 ELSE @]
            /\ UNCHANGED <<ret, fatal>>
    /\ UNCHANGED <<variant, retry, storage, dummy_env, config, is_closed, keys, shared_tensordicts,
                   parent_channels, workerVars, nreset, wrote>>

\* msg, _ = channel.recv(); if msg != "seeded": raise; at the end return seed
Parallel_set_seed_recv ==
    /\ opc = "seed_recv"
    /\ CanRecv(k)
    /\ IF Eof(k)
       THEN /\ Raise("EOFError", TRUE)
            /\ UNCHANGED <<k, parent_channels, awaiting>>
       ELSE LET m == Head(parent_channels[k]) IN
            /\ Recv(k)
            /\ IF m.tag # "seeded"
               THEN Raise("protocol", TRUE) /\ k' = k
               ELSE IF k + 1 = NumWorkers
                    THEN ReturnValue({}, call.td) /\ k' = 0
                    ELSE k' = k + 1 /\ UNCHANGED <<opc, call, ret, fatal>>
    /\ UNCHANGED <<variant, retry, storage, dummy_env, config, is_closed, keys, shared_tensordicts, child_pipe,
                   workerVars, sent, nreset, wrote>>

\* ---- ParallelEnv.state_dict
Parallel_state_dict_call ==
    /\ variant = "parallel"
    /\ CallerMayCall
    /\ check_start
    /\ NewCall
    /\ Enter("state_dict", <<>>, Workers, "state_dict_send")
    /\ UNCHANGED <<variant, retry, storage, dummy_env>>

\* channel.send(("state_dict", None))
Parallel_state_dict_send ==
    /\ opc = "state_dict_send"
    /\ IF workers[k] \in Dead
       THEN /\ Raise("BrokenPipeError", TRUE)
            /\ UNCHANGED <<k, child_pipe, sent, awaiting>>
       ELSE /\ Send(k, "state_dict", {})
            /\ NextIndex("state_dict_recv")
            /\ UNCHANGED <<call, ret, fatal>>
    /\ UNCHANGED <<variant, retry, storage, dummy_env, config, is_closed, keys, shared_tensordicts,
                   parent_channels, workerVars, nreset, wrote>>

\* msg, _state_dict = channel.recv(); if msg != "state_dict": raise
Parallel_state_dict_recv ==
    /\ opc = "state_dict_recv"
    /\ CanRecv(k)
    /\ IF Eof(k)
       THEN /\ Raise("EOFError", TRUE)
            /\ UNCHANGED <<k, parent_channels, awaiting>>
       ELSE LET m == Head(parent_channels[k]) IN
            /\ Recv(k)
            /\ IF m.tag # "state_dict"
               THEN Raise("protocol", TRUE) /\ k' = k
               ELSE LET state_dict == Append(call.td, Item(WorkerKey(k), m.data)) IN
                    IF k + 1 = NumWorkers
                    THEN ReturnValue({}, state_dict) /\ k' = 0
                    ELSE /\ k' = k + 1
                         /\ call' = [call EXCEPT !.td = state_dict]
                         /\ UNCHANGED <<opc, ret, fatal>>
    /\ UNCHANGED <<variant, retry, storage, dummy_env, config, is_closed, keys, shared_tensordicts, child_pipe,
                   workerVars, sent, nreset, wrote>>

\* ---- ParallelEnv.load_state_dict
\* if "worker0" not in state_dict: the mapping is given to every worker
broadcast(state_dict) ==
    IF HasKey(state_dict, "worker0")
    THEN state_dict
    ELSE [i \in 1 .. NumWorkers |-> Item(WorkerKey(i - 1), state_dict)]

Parallel_load_state_dict_call(state_dict) ==
    /\ variant = "parallel"
    /\ CallerMayCall
    /\ check_start
    /\ NewCall
    /\ Enter("load_state_dict", broadcast(state_dict), Workers, "load_state_dict_send")
    /\ UNCHANGED <<variant, retry, storage, dummy_env>>

\* a send loop that gives every worker the entry of worker 0
Parallel_load_state_dict_send_first ==
    /\ opc = "load_state_dict_send"
    /\ IF workers[k] \in Dead
       THEN /\ Raise("BrokenPipeError", TRUE)
            /\ UNCHANGED <<k, child_pipe, sent, awaiting>>
       ELSE /\ Send(k, "load_state_dict", Get(call.td, WorkerKey(0)))
            /\ NextIndex("load_state_dict_recv")
            /\ UNCHANGED <<call, ret, fatal>>
    /\ UNCHANGED <<variant, retry, storage, dummy_env, config, is_closed, keys, shared_tensordicts,
                   parent_channels, workerVars, nreset, wrote>>

\* channel.send(("load_state_dict", state_dict[f"worker{i}"]))
Parallel_load_state_dict_send ==
    /\ opc = "load_state_dict_send"
    /\ IF workers[k] \in Dead
       THEN /\ Raise("BrokenPipeError", TRUE)
            /\ UNCHANGED <<k, child_pipe, sent, awaiting>>
       ELSE /\ Send(k, "load_state_dict", Get(call.td, WorkerKey(k)))
            /\ NextIndex("load_state_dict_recv")
            /\ UNCHANGED <<call, ret, fatal>>
    /\ UNCHANGED <<variant, retry, storage, dummy_env, config, is_closed, keys, shared_tensordicts,
                   parent_channels, workerVars, nreset, wrote>>

\* msg, _ = channel.recv(); if msg != "loaded": raise
Parallel_load_state_dict_recv ==
    /\ opc = "load_state_dict_recv"
    /\ CanRecv(k)
    /\ IF Eof(k)
       THEN /\ Raise("EOFError", TRUE)
            /\ UNCHANGED <<k, parent_channels, awaiting>>
       ELSE LET m == Head(parent_channels[k]) IN
            /\ Recv(k)
            /\ IF m.tag # "loaded"
               THEN Raise("protocol", TRUE) /\ k' = k
               ELSE IF k + 1 = NumWorkers
                    THEN Return({}) /\ k' = 0
                    ELSE k' = k + 1 /\ UNCHANGED <<opc, call, ret, fatal>>
    /\ UNCHANGED <<variant, retry, storage, dummy_env, config, is_closed, keys, shared_tensordicts, child_pipe,
                   workerVars, sent, nreset, wrote>>

\* ---- ParallelEnv.__getattr__ and _dispatch_caller_parallel.__call__
\* the object a generic query hands to the caller: a list of results, or the
\* _dispatch_caller_parallel made for attr
ListOf(results) == [kind |-> "list", items |-> results]
Proxy(attr) == [kind |-> "proxy", items |-> <<>>]

\* env.attr(*args) for a method, env.attr for any other attribute:
\* if self.is_closed: raise RuntimeError("Trying to access attributes of closed ...");
\* return _dispatch_caller_parallel(attr, self), which the caller of a method calls
Parallel_getattr_call(attr, args) ==
    /\ variant = "parallel"
    /\ CallerMayCall
    /\ NewCall
    /\ IF is_closed
       THEN RaiseOp(attr, Workers, "not started", FALSE)
       ELSE IF callable(attr)
       THEN Enter(attr, [args |-> args, results |-> <<>>], Workers, "getattr_send")
       ELSE /\ opc' = "idle"
            /\ ret' = [op |-> attr, status |-> "ok", err |-> "", keys |-> {},
                       mask |-> {}, value |-> Proxy(attr)]
            /\ call' = NoCall
            /\ fatal' = fatal
    /\ UNCHANGED <<variant, retry, storage, dummy_env, startVars>>

\* _dispatch_caller_parallel.__iter__: iter(self.__call__()), on the object
\* the query of a non-callable attribute has just returned
Parallel_getattr_iter ==
    /\ variant = "parallel"
    /\ CallerMayCall
    /\ ret.status = "ok" /\ ret.op \in GenericAttrs /\ ret.value = Proxy(ret.op)
    /\ NewCall
    /\ Enter(ret.op, [args |-> <<>>, results |-> <<>>], Workers, "getattr_send")
    /\ UNCHANGED <<variant, retry, storage, dummy_env, startVars>>

\* channel.send((self.attr, (args, kwargs)))
Parallel_getattr_send ==
    /\ opc = "getattr_send"
    /\ IF workers[k] \in Dead
       THEN /\ Raise("BrokenPipeError", TRUE)
            /\ UNCHANGED <<k, child_pipe, sent, awaiting>>
       ELSE /\ Send(k, call.op, call.td.args)
            /\ NextIndex("getattr_recv")
            /\ UNCHANGED <<call, ret, fatal>>
    /\ UNCHANGED <<variant, retry, storage, dummy_env, config, is_closed, keys, shared_tensordicts,
                   parent_channels, workerVars, nreset, wrote>>

\* a dispatcher that returns after the first worker's reply
Parallel_getattr_recv_first ==
    /\ opc = "getattr_recv"
    /\ CanRecv(k)
    /\ IF Eof(k)
       THEN /\ Raise("EOFError", TRUE)
            /\ UNCHANGED <<k, parent_channels, awaiting>>
       ELSE /\ Recv(k)
            /\ ReturnValue({}, ListOf(<<Head(parent_channels[k]).data>>))
            /\ k' = 0
    /\ UNCHANGED <<variant, retry, storage, dummy_env, config, is_closed, keys, shared_tensordicts, child_pipe,
                   workerVars, sent, nreset, wrote>>

\* msg, result = channel.recv(); results.append(result): the tag is not looked at
Parallel_getattr_recv ==
    /\ opc = "getattr_recv"
    /\ CanRecv(k)
    /\ IF Eof(k)
       THEN /\ Raise("EOFError", TRUE)
            /\ UNCHANGED <<k, parent_channels, awaiting>>
       ELSE LET results == Append(call.td.results, Head(parent_channels[k]).data) IN
            /\ Recv(k)
            /\ IF k + 1 = NumWorkers
               THEN ReturnValue({}, ListOf(results)) /\ k' = 0
               ELSE /\ k' = k + 1
                    /\ call' = [call EXCEPT !.td.results = results]
                    /\ UNCHANGED <<opc, ret, fatal>>
    /\ UNCHANGED <<variant, retry, storage, dummy_env, config, is_closed, keys, shared_tensordicts, child_pipe,
                   workerVars, sent, nreset, wrote>>

\* a close without the is_closed guard
Parallel_close_call_unguarded ==
    /\ variant = "parallel"
    /\ CallerMayCall
    /\ NewCall
    /\ Enter("close", <<>>, Workers, "close_send")
    /\ UNCHANGED <<variant, retry, storage, dummy_env, startVars>>

\* ---- _BatchedEnv.close and ParallelEnv._shutdown_workers
\* if self.is_closed: raise RuntimeError("trying to close a closed environment")
Parallel_close_call ==
    /\ variant = "parallel"
    /\ CallerMayCall
    /\ NewCall
    /\ IF is_closed
       THEN RaiseOp("close", Workers, "closed", FALSE)
       ELSE Enter("close", <<>>, Workers, "close_send")
    /\ UNCHANGED <<variant, retry, storage, dummy_env, startVars>>

\* channel.send(("close", None))
Parallel_close_send ==
    /\ opc = "close_send"
    /\ IF workers[k] \in Dead
       THEN /\ Raise("BrokenPipeError", TRUE)
            /\ UNCHANGED <<child_pipe, sent, awaiting>>
       ELSE /\ Send(k, "close", {})
            /\ opc' = "close_recv"
            /\ UNCHANGED <<call, ret, fatal>>
    /\ UNCHANGED <<variant, retry, storage, dummy_env, config, is_closed, k, keys, shared_tensordicts,
                   parent_channels, workerVars, nreset, wrote>>

\* msg, _ = channel.recv(); if msg != "closing": raise
Parallel_close_recv ==
    /\ opc = "close_recv"
    /\ CanRecv(k)
    /\ IF Eof(k)
       THEN /\ Raise("EOFError", TRUE)
            /\ UNCHANGED <<k, parent_channels, awaiting>>
       ELSE LET m == Head(parent_channels[k]) IN
            /\ Recv(k)
            /\ IF m.tag # "closing"
               THEN Raise("protocol", TRUE) /\ k' = k
               ELSE /\ k' = IF k + 1 = NumWorkers THEN 0 ELSE k + 1
                    /\ opc' = IF k + 1 = NumWorkers THEN "close_join" ELSE "close_send"
                    /\ UNCHANGED <<call, ret, fatal>>
    /\ UNCHANGED <<variant, retry, storage, dummy_env, config, is_closed, keys, shared_tensordicts, child_pipe,
                   workerVars, sent, nreset, wrote>>

\* a shutdown that does not wait for the worker processes to end
Parallel_close_no_join ==
    /\ opc = "close_join"
    /\ shared_tensordicts' = [i \in Workers |-> NewSlice]
    /\ workers' = [i \in Workers |-> "none"]
    /\ werr' = [i \in Workers |-> ""]
    /\ initialized' = [i \in Workers |-> FALSE]
    /\ wpc' = [i \in Workers |-> "recv"]
    /\ wdata' = NoData
    /\ env_is_done' = [i \in Workers |-> FALSE]
    /\ env_seed' = Zeros
    /\ env_state' = InitialStates
    /\ child_pipe' = [i \in Workers |-> <<>>]
    /\ parent_channels' = [i \in Workers |-> <<>>]
    /\ awaiting' = Zeros
    /\ is_closed' = TRUE
    /\ Return({})
    /\ UNCHANGED <<variant, retry, storage, dummy_env, config, k, keys, sent, nreset, wrote>>

\* a shutdown after which the orchestrator is not marked closed
Parallel_close_join_stays_open ==
    /\ opc = "close_join"
    /\ \A i \in Workers : workers[i] \in Dead
    /\ shared_tensordicts' = [i \in Workers |-> NewSlice]
    /\ workers' = [i \in Workers |-> "none"]
    /\ werr' = [i \in Workers |-> ""]
    /\ initialized' = [i \in Workers |-> FALSE]
    /\ wpc' = [i \in Workers |-> "recv"]
    /\ wdata' = NoData
    /\ env_is_done' = [i \in Workers |-> FALSE]
    /\ env_seed' = Zeros
    /\ env_state' = InitialStates
    /\ child_pipe' = [i \in Workers |-> <<>>]
    /\ parent_channels' = [i \in Workers |-> <<>>]
    /\ awaiting' = Zeros
    /\ is_closed' = FALSE
    /\ Return({})
    /\ UNCHANGED <<variant, retry, storage, dummy_env, config, k, keys, sent, nreset, wrote>>

\* del the tensordicts; channel.close(); proc.join(); then self.is_closed = True
Parallel_close_join ==
    /\ opc = "close_join"
    /\ \A i \in Workers : workers[i] \in Dead
    /\ shared_tensordicts' = [i \in Workers |-> NewSlice]
    /\ workers' = [i \in Workers |-> "none"]
    /\ werr' = [i \in Workers |-> ""]
    /\ initialized' = [i \in Workers |-> FALSE]
    /\ wpc' = [i \in Workers |-> "recv"]
    /\ wdata' = NoData
    /\ env_is_done' = [i \in Workers |-> FALSE]
    /\ env_seed' = Zeros
    /\ env_state' = InitialStates
    /\ child_pipe' = [i \in Workers |-> <<>>]
    /\ parent_channels' = [i \in Workers |-> <<>>]
    /\ awaiting' = Zeros
    /\ is_closed' = TRUE
    /\ Return({})
    /\ UNCHANGED <<variant, retry, storage, dummy_env, config, k, keys, sent, nreset, wrote>>

\* ================================================= SerialEnv, all in the caller's thread
\* SerialEnv._start_workers after _create_td: the simulators are built in-process
serialIdle == <<child_pipe, parent_channels, workers, werr, initialized, wpc, wdata,
                sent, awaiting, k, keys, call>>

\* env.step(tensordict) leaves its result in the tensordict it was handed
Serial_env_step(slice, td) == update_(slice, td, DOMAIN td)

\* the per-simulator outcomes of one batched step on the slices b
SerialStepOutcomes(b) ==
    {f \in [Workers -> UNION {SimStep(a) : a \in ActionValues \cup {0}}] :
        \A i \in Workers : f[i] \in SimStep(b[i]["action"])}

\* what SerialEnv._step returns: self.shared_tensordict_parent
SerialStepReturnedKeys == BufferKeys

\* SerialEnv._step: update_(tensordict); self._envs[i].step(self.shared_tensordicts[i])
Serial_step(td, shape_ok) ==
    /\ variant = "serial"
    /\ CallerMayCall
    /\ serial_start
    /\ nreset' = Zeros
    /\ IF ~shape_ok
       THEN /\ RaiseOp("step", DOMAIN td, "shape", FALSE)
            /\ shared_tensordicts' =
                   IF is_closed THEN [i \in Workers |-> NewSlice] ELSE shared_tensordicts
            /\ env_is_done' =
                   IF is_closed THEN [i \in Workers |-> FALSE] ELSE env_is_done
            /\ wrote' = NoKeys
       ELSE LET start == IF is_closed THEN [i \in Workers |-> NewSlice]
                         ELSE shared_tensordicts
                b == [i \in Workers |-> update_(start[i], td[i], DOMAIN td[i])]
            IN \E f \in SerialStepOutcomes(b) :
                /\ shared_tensordicts' = [i \in Workers |-> Serial_env_step(b[i], f[i])]
                /\ env_is_done' = [i \in Workers |-> f[i]["done"] = 1]
                /\ wrote' = [i \in Workers |-> StepUpdatedKeys(f[i])]
                /\ opc' = "idle"
                /\ ret' = [op |-> "step", status |-> "ok", err |-> "",
                           keys |-> SerialStepReturnedKeys, mask |-> Workers, value |-> 0]
                /\ fatal' = fatal
    /\ UNCHANGED <<variant, retry, storage, dummy_env, serialIdle, env_seed, env_state>>

\* the per-simulator outcomes of one reset
SerialResetOutcomes == [Workers -> SimReset]

\* SerialEnv._reset: for the selected simulators env.reset and update_ of the
\* slice; returns self.shared_tensordict_parent.select(*keys).clone()
Serial_reset(mask) ==
    /\ variant = "serial"
    /\ CallerMayCall
    /\ serial_start
    /\ LET start == IF is_closed THEN [i \in Workers |-> NewSlice]
                    ELSE shared_tensordicts
           dones == IF is_closed THEN [i \in Workers |-> FALSE] ELSE env_is_done
       IN \E f \in SerialResetOutcomes :
           /\ shared_tensordicts' =
                  [i \in Workers |-> IF i \in mask
                                     THEN update_(start[i], f[i], DOMAIN f[i])
                                     ELSE start[i]]
           /\ env_is_done' =
                  [i \in Workers |-> IF i \in mask THEN f[i]["done"] = 1 ELSE dones[i]]
           /\ nreset' = [i \in Workers |-> IF i \in mask THEN 1 ELSE 0]
           /\ wrote' = [i \in Workers |-> IF i \in mask THEN DOMAIN f[i] ELSE {}]
           /\ opc' = "idle"
           /\ ret' = [op |-> "reset", status |-> "ok", err |-> "",
                      keys |-> UNION {DOMAIN f[i] : i \in mask}, mask |-> mask,
                      value |-> 0]
           /\ fatal' = fatal
    /\ UNCHANGED <<variant, retry, storage, dummy_env, serialIdle, env_seed, env_state>>

\* SerialEnv.set_seed, the loop from simulator i on with the running seed:
\* env.set_seed(seed); if i < self.num_workers - 1: seed = seed + 1
RECURSIVE Serial_set_seed_loop(_, _, _)
Serial_set_seed_loop(i, seed, seeds) ==
    IF i = NumWorkers
    THEN [seeds |-> seeds, seed |-> seed]
    ELSE Serial_set_seed_loop(i + 1,
                              IF i < NumWorkers - 1 THEN seed + 1 ELSE seed,
                              [seeds EXCEPT ![i] = seed])

\* SerialEnv.set_seed: @_check_start, the loop, return seed
Serial_set_seed(seed) ==
    /\ variant = "serial"
    /\ CallerMayCall
    /\ serial_start
    /\ LET r == Serial_set_seed_loop(0, seed, env_seed) IN
        /\ env_seed' = r.seeds
        /\ ret' = [op |-> "set_seed", status |-> "ok", err |-> "",
                   keys |-> {}, mask |-> Workers, value |-> r.seed]
    /\ env_state' = env_state
    /\ opc' = "idle"
    /\ fatal' = fatal
    /\ nreset' = Zeros
    /\ wrote' = NoKeys
    /\ UNCHANGED <<variant, retry, storage, dummy_env, serialIdle, shared_tensordicts, env_is_done>>

\* _BatchedEnv.close with SerialEnv._shutdown_workers: env.close() for each
Serial_close ==
    /\ variant = "serial"
    /\ CallerMayCall
    /\ IF is_closed
       THEN /\ RaiseOp("close", Workers, "closed", FALSE)
            /\ UNCHANGED <<is_closed, shared_tensordicts, env_is_done, env_seed, env_state>>
       ELSE /\ is_closed' = TRUE
            /\ shared_tensordicts' = [i \in Workers |-> NewSlice]
            /\ env_is_done' = [i \in Workers |-> FALSE]
            /\ env_seed' = Zeros
            /\ env_state' = InitialStates
            /\ opc' = "idle"
            /\ ret' = [op |-> "close", status |-> "ok", err |-> "",
                       keys |-> {}, mask |-> Workers, value |-> 0]
            /\ fatal' = fatal
    /\ nreset' = Zeros
    /\ wrote' = NoKeys
    /\ UNCHANGED <<variant, retry, storage, dummy_env, config, serialIdle>>

\* SerialEnv.__getattr__ and _dispatch_caller_serial.__call__: self._envs
\* exists from _start_workers to _shutdown_workers only, and reading it
\* otherwise ends in the AttributeError of the except clause; a method is
\* called on every simulator in index order and may raise
Serial_getattr(attr, args) ==
    /\ variant = "serial"
    /\ CallerMayCall
    /\ IF is_closed
       THEN RaiseOp(attr, Workers, "AttributeError", FALSE)
       ELSE \E raises \in BOOLEAN :
            IF raises /\ callable(attr)
            THEN RaiseOp(attr, Workers, "SimulatorError", FALSE)
            ELSE /\ opc' = "idle"
                 /\ ret' = [op |-> attr, status |-> "ok", err |-> "", keys |-> {},
                            mask |-> Workers,
                            value |-> ListOf([j \in 1 .. NumWorkers |->
                                                 getattr_result(j - 1, attr, args)])]
                 /\ fatal' = fatal
                 /\ call' = NoCall
    /\ nreset' = Zeros
    /\ wrote' = NoKeys
    /\ sent' = sent
    /\ UNCHANGED <<variant, retry, storage, dummy_env, config, is_closed, child_pipe, parent_channels, workers,
                   werr, initialized, wpc, wdata, awaiting, k, keys, shared_tensordicts,
                   env_is_done, env_seed, env_state>>

\* SerialEnv.state_dict: state_dict[f"worker{idx}"] = env.state_dict()
Serial_state_dict ==
    /\ variant = "serial"
    /\ CallerMayCall
    /\ serial_start
    /\ opc' = "idle"
    /\ ret' = [op |-> "state_dict", status |-> "ok", err |-> "", keys |-> {},
               mask |-> Workers,
               value |-> [i \in 1 .. NumWorkers |->
                              Item(WorkerKey(i - 1), env_state[i - 1])]]
    /\ fatal' = fatal
    /\ nreset' = Zeros
    /\ wrote' = NoKeys
    /\ UNCHANGED <<variant, retry, storage, dummy_env, serialIdle, shared_tensordicts,
                   env_is_done, env_seed, env_state>>

\* SerialEnv.load_state_dict: env.load_state_dict(state_dict[f"worker{idx}"])
Serial_load_state_dict(state_dict) ==
    /\ variant = "serial"
    /\ CallerMayCall
    /\ serial_start
    /\ env_state' = [i \in Workers |-> Get(broadcast(state_dict), WorkerKey(i))]
    /\ opc' = "idle"
    /\ ret' = [op |-> "load_state_dict", status |-> "ok", err |-> "", keys |-> {},
               mask |-> Workers, value |-> 0]
    /\ fatal' = fatal
    /\ nreset' = Zeros
    /\ wrote' = NoKeys
    /\ UNCHANGED <<variant, retry, storage, dummy_env, serialIdle, shared_tensordicts,
                   env_is_done, env_seed>>

\* the mappings load_state_dict is given: one entry per worker, listed in
\* index order or in reverse, or the state mapping of a single simulator
PerWorkerDicts ==
    UNION {{[j \in 1 .. NumWorkers |-> Item(WorkerKey(j - 1), SimState(f[j - 1]))],
            [j \in 1 .. NumWorkers |->
                 Item(WorkerKey(NumWorkers - j), SimState(f[NumWorkers - j]))]} :
           f \in [Workers -> StateValues]}
SingleDicts == {SimState(v) : v \in StateValues}
StateDicts == PerWorkerDicts \cup SingleDicts

\* what state_dict() returns on an orchestrator whose simulators are as created
SavedDicts == {[j \in 1 .. NumWorkers |-> Item(WorkerKey(j - 1), InitialStates[j - 1])]}

SerialNext ==
    \/ \E td \in StepBatches : Serial_step(td, assert_tensordict_shape(td))
    \/ \E mask \in ResetMasks : Serial_reset(mask)
    \/ \E seed \in Seeds : Serial_set_seed(seed)
    \/ Serial_state_dict
    \/ \E attr \in GenericAttrs, args \in GenericArgs : Serial_getattr(attr, args)
    \/ \E state_dict \in SavedDicts : Serial_load_state_dict(state_dict)
    \/ Serial_close

\* ================================================================== Next
WorkerNext ==
    \E i \in Workers :
        \/ Worker_recv(i)
        \/ Worker_init(i)
        \/ Worker_reset(i)
        \/ Worker_reset_sent(i)
        \/ Worker_step(i)
        \/ Worker_close(i)
        \/ Worker_exit(i)
        \/ Worker_seed(i)
        \/ Worker_load_state_dict(i)
        \/ Worker_state_dict(i)
        \/ Worker_getattr(i)

ParallelNext ==
    \/ \E td \in StepBatches : Parallel_step_call(td, assert_tensordict_shape(td))
    \/ Parallel_step_update
    \/ Parallel_step_send
    \/ Parallel_step_recv
    \/ \E mask \in ResetMasks : Parallel_reset_call(mask)
    \/ Parallel_reset_send
    \/ Parallel_reset_recv
    \/ Parallel_reset_check
    \/ \E seed \in Seeds : Parallel_set_seed_call(seed)
    \/ Parallel_set_seed_send
    \/ Parallel_set_seed_recv
    \/ Parallel_state_dict_call
    \/ Parallel_state_dict_send
    \/ Parallel_state_dict_recv
    \/ \E state_dict \in SavedDicts : Parallel_load_state_dict_call(state_dict)
    \/ Parallel_load_state_dict_send
    \/ Parallel_load_state_dict_recv
    \/ \E attr \in GenericAttrs, args \in GenericArgs : Parallel_getattr_call(attr, args)
    \/ Parallel_getattr_iter
    \/ Parallel_getattr_send
    \/ Parallel_getattr_recv
    \/ Parallel_close_call
    \/ Parallel_close_send
    \/ Parallel_close_recv
    \/ Parallel_close_join

Next == WorkerNext \/ ParallelNext \/ SerialNext

Spec == Init /\ [][Next]_vars

\* saving and loading simulator states alone: load_state_dict is given any
\* mapping of StateDicts, between any number of restarts
WorkerNextStateDict ==
    \E i \in Workers :
        \/ Worker_recv(i)
        \/ Worker_init(i)
        \/ Worker_close(i)
        \/ Worker_exit(i)
        \/ Worker_load_state_dict(i)
        \/ Worker_state_dict(i)

NextStateDict ==
    \/ WorkerNextStateDict
    \/ Parallel_state_dict_call
    \/ Parallel_state_dict_send
    \/ Parallel_state_dict_recv
    \/ \E state_dict \in StateDicts : Parallel_load_state_dict_call(state_dict)
    \/ Parallel_load_state_dict_send
    \/ Parallel_load_state_dict_recv
    \/ Parallel_close_call
    \/ Parallel_close_send
    \/ Parallel_close_recv
    \/ Parallel_close_join
    \/ Serial_state_dict
    \/ \E state_dict \in StateDicts : Serial_load_state_dict(state_dict)
    \/ Serial_close

SpecStateDict == Init /\ [][NextStateDict]_vars

\* start-up under any key lists: the orchestrator is constructed with any
\* action_keys, selected_keys and excluded_keys of these and its first call,
\* state_dict(), starts it or is refused; a refused caller may call again. The
\* buffer is not looked at: state_dict neither reads nor writes it
ActionKeyLists == {Absent, Given({"action"}), Given({"action", "reward"})}
SelectedKeyLists == {Absent, Given({"observation", "done"}),
                     Given({"action", "observation", "done"})}
ExcludedKeyLists == {Absent, Given({"reward"}), Given({"action"})}

Configs == [action_keys : ActionKeyLists, selected_keys : SelectedKeyLists,
            excluded_keys : ExcludedKeyLists]

InitConfig == InitCommon /\ retry = FALSE /\ storage = "shared" /\ config \in Configs

NextConfig ==
    \/ Start_refused("state_dict")
    \/ Parallel_state_dict_call
    \/ Parallel_state_dict_send
    \/ Parallel_state_dict_recv
    \/ Serial_state_dict
    \/ \E i \in Workers : Worker_recv(i) \/ Worker_init(i) \/ Worker_state_dict(i)

SpecConfig == InitConfig /\ [][NextConfig]_vars

\* ---- _BatchedEnv.__init__
\* create_env_fn: one callable, or a list of len callables
OneFactory == [callable |-> TRUE, len |-> 1]
FactoryList(n) == [callable |-> FALSE, len |-> n]

\* RuntimeError(f"num_workers and len(create_env_fn) mismatch, ...")
MismatchError == "num_workers and len(create_env_fn) mismatch"
\* RuntimeError("memmap and shared memory are mutually exclusive features.")
ExclusiveError == "memmap and shared memory are mutually exclusive features"

\* the placement _create_td gives the buffer under the flags of __init__:
\* if self._share_memory: share_memory_() elif self._memmap: memmap_().
\* The variant plays no part: the class attribute SerialEnv._share_memory = False
\* is shadowed by the instance attribute __init__ assigns from shared_memory
placement(shared_memory, memmap) ==
    IF shared_memory THEN "shared" ELSE IF memmap THEN "memmap" ELSE "none"

\* before __init__ runs: no orchestrator, no trial simulator, nothing started
InitNew ==
    /\ variant \in {"parallel", "serial"}
    /\ retry = FALSE
    /\ storage = "none"
    /\ dummy_env = "none"
    /\ config = DefaultConfig
    /\ is_closed = TRUE
    /\ fatal = FALSE
    /\ opc = "new"
    /\ k = 0
    /\ call = NoCall
    /\ keys = {}
    /\ ret = NoRet
    /\ shared_tensordicts = [i \in Workers |-> NewSlice]
    /\ child_pipe = [i \in Workers |-> <<>>]
    /\ parent_channels = [i \in Workers |-> <<>>]
    /\ workers = [i \in Workers |-> "none"]
    /\ werr = [i \in Workers |-> ""]
    /\ initialized = [i \in Workers |-> FALSE]
    /\ wpc = [i \in Workers |-> "recv"]
    /\ wdata = NoData
    /\ env_is_done = [i \in Workers |-> FALSE]
    /\ env_seed = Zeros
    /\ env_state = InitialStates
    /\ sent = Zeros
    /\ awaiting = Zeros
    /\ nreset = Zeros
    /\ wrote = NoKeys

\* __init__ raises err; the caller is left without an orchestrator
InitRaises(err) ==
    /\ opc' = "failed"
    /\ ret' = [op |-> "__init__", status |-> "raised", err |-> err,
               keys |-> {}, mask |-> {}, value |-> 0]

\* a constructor that tests neither the factory list nor the placement flags
BatchedEnv_init_unchecked(create_env_fn, shared_memory, memmap, c) ==
    /\ opc = "new"
    /\ is_closed' = TRUE
    /\ dummy_env' = "closed"
    /\ config' = c
    /\ storage' = placement(shared_memory, memmap)
    /\ opc' = "idle"
    /\ ret' = [op |-> "__init__", status |-> "ok", err |-> "",
               keys |-> {}, mask |-> {}, value |-> 0]
    /\ UNCHANGED <<variant, retry, fatal, k, call, keys, shared_tensordicts,
                   pipeVars, workerVars, histVars>>

\* _BatchedEnv.__init__(num_workers, create_env_fn, action_keys=...,
\* selected_keys=..., excluded_keys=..., shared_memory=..., memmap=...):
\* self.is_closed = True; the length test; self._dummy_env = create_env_fn[0]();
\* the attributes; the exclusion test; the specs; self._dummy_env.close()
BatchedEnv_init(create_env_fn, shared_memory, memmap, c) ==
    /\ opc = "new"
    /\ is_closed' = TRUE
    /\ IF ~create_env_fn.callable /\ create_env_fn.len # NumWorkers
       THEN /\ InitRaises(MismatchError)
            /\ UNCHANGED <<dummy_env, config, storage>>
       ELSE IF shared_memory /\ memmap
       THEN /\ InitRaises(ExclusiveError)
            /\ dummy_env' = "live"
            /\ config' = c
            /\ UNCHANGED storage
       ELSE /\ dummy_env' = "closed"
            /\ config' = c
            /\ storage' = placement(shared_memory, memmap)
            /\ opc' = "idle"
            /\ ret' = [op |-> "__init__", status |-> "ok", err |-> "",
                       keys |-> {}, mask |-> {}, value |-> 0]
    /\ UNCHANGED <<variant, retry, fatal, k, call, keys, shared_tensordicts,
                   pipeVars, workerVars, histVars>>

\* the arguments __init__ is given
CreateEnvFns == {OneFactory} \cup
                {FactoryList(n) : n \in {NumWorkers - 1, NumWorkers, NumWorkers + 1}}

\* construction under any arguments, then state_dict() and close() in any
\* order: every start and restart of the orchestrator that was constructed
NextConstruct ==
    \/ \E create_env_fn \in CreateEnvFns, shared_memory \in BOOLEAN,
          memmap \in BOOLEAN, c \in Configs :
           BatchedEnv_init(create_env_fn, shared_memory, memmap, c)
    \/ Start_refused("state_dict")
    \/ Parallel_state_dict_call
    \/ Parallel_state_dict_send
    \/ Parallel_state_dict_recv
    \/ Parallel_close_call
    \/ Parallel_close_send
    \/ Parallel_close_recv
    \/ Parallel_close_join
    \/ Serial_state_dict
    \/ Serial_close
    \/ \E i \in Workers :
           \/ Worker_recv(i)
           \/ Worker_init(i)
           \/ Worker_state_dict(i)
           \/ Worker_close(i)
           \/ Worker_exit(i)

SpecConstruct == InitNew /\ [][NextConstruct]_vars

\* generic queries on a simulator that also has the methods of TagNamedAttrs:
\* set_seed() starts the orchestrator, any attribute is queried, close() ends
\* the workers and the next set_seed() starts new ones
SimulatorAttrs == GenericAttrs \cup TagNamedAttrs

InitForward == Init /\ variant = "parallel"

NextForward ==
    \/ \E seed \in Seeds : Parallel_set_seed_call(seed)
    \/ Parallel_set_seed_send
    \/ Parallel_set_seed_recv
    \/ \E attr \in SimulatorAttrs, args \in GenericArgs : Parallel_getattr_call(attr, args)
    \/ Parallel_getattr_iter
    \/ Parallel_getattr_send
    \/ Parallel_getattr_recv
    \/ Parallel_close_call
    \/ Parallel_close_send
    \/ Parallel_close_recv
    \/ Parallel_close_join
    \/ \E i \in Workers :
           \/ Worker_recv(i)
           \/ Worker_init(i)
           \/ Worker_seed(i)
           \/ Worker_getattr(i)
           \/ Worker_close(i)
           \/ Worker_exit(i)

SpecForward == InitForward /\ [][NextForward]_vars

\* the worker loop alone, sent any commands in any order
PeerNext ==
    \/ \E cmd \in ProtocolCmds \cup GenericAttrs : Peer_send(cmd)
    \/ Peer_recv

NextWorker == WorkerNext \/ PeerNext

SpecWorker == InitWorker /\ [][NextWorker]_vars

\* ============================================================ properties
\* commands in channel i that call for a reply ("init" calls for none)
QueuedReplyBearing(i) ==
    Cardinality({n \in 1 .. Len(child_pipe[i]) : child_pipe[i][n].cmd # "init"})

\* worker i has received a reply-bearing command and not yet sent the reply
Servicing(i) ==
    IF workers[i] = "alive" /\ wpc[i] \notin {"recv", "init", "reset_sent", "closing"}
    THEN 1 ELSE 0

\* worker i has no reply-bearing command sent, in service or answered and unread
NoOutstanding(i) ==
    /\ awaiting[i] = 0
    /\ parent_channels[i] = <<>>
    /\ QueuedReplyBearing(i) = 0
    /\ Servicing(i) = 0

\* the step taken is worker i sending the reply to the command cmd
Replies(i, cmd) ==
    /\ workers[i] = "alive"
    /\ wpc[i] = cmd
    /\ Len(parent_channels'[i]) = Len(parent_channels[i]) + 1

LastReply(i) == parent_channels'[i][Len(parent_channels'[i])]

\* ---------------------------------------------------------------- C1
\* C1: in ParallelEnv no two processes write the same slice concurrently.
\* A slice i changes only (a) by worker i, between its receiving "reset" or
\* "step" and its sending the reply, while the orchestrator does not move and
\* no other slice changes; or (b) by the orchestrator's action write of _step,
\* when no worker has a reply-bearing command sent, in service or unread
\* ("init", which is never answered and writes nothing, may still be queued);
\* or (c) when the buffer is created or deleted and no worker process runs.
C1_ExclusiveSliceWrites ==
    [][variant = "parallel" =>
        \A i \in Workers :
            shared_tensordicts'[i] # shared_tensordicts[i] =>
                \/ /\ \E cmd \in {"reset", "step"} : Replies(i, cmd)
                   /\ opc' = opc
                   /\ \A j \in Workers \ {i} :
                          shared_tensordicts'[j] = shared_tensordicts[j]
                \/ /\ opc = "step_update"
                   /\ \A j \in Workers : NoOutstanding(j)
                \/ /\ is_closed' # is_closed
                   /\ \A j \in Workers : workers[j] # "alive"]_vars

\* a worker is writing its slice in answer to "step" while another worker's
\* step command is still unread: the writes of the two overlap in time
C1_Witness ==
    /\ variant = "parallel"
    /\ opc = "step_recv"
    /\ wpc[0] = "step"
    /\ child_pipe[1] # <<>>
    /\ shared_tensordicts[0]["action"] # 0

\* ---------------------------------------------------------------- C2
\* C2 (as worded): every command is answered before the next one is sent on
\* the channel, so a channel never holds two commands
C2_OneCommandInFlight ==
    \A i \in Workers : Len(child_pipe[i]) <= 1

\* C2 (amended): "init" is answered by no reply and the first command follows
\* it at once; every other command sent to worker i is answered by at most
\* one reply, by exactly one once the worker has serviced it and lives, and
\* the next command is sent on the channel only after that reply is received
C2_RequestReply ==
    variant = "parallel" =>
        \A i \in Workers :
            /\ awaiting[i] \in {0, 1}
            /\ \A n \in 1 .. Len(child_pipe[i]) :
                   child_pipe[i][n].cmd = "init" => n = 1
            /\ workers[i] = "alive" =>
                   awaiting[i] = QueuedReplyBearing(i) + Servicing(i)
                                     + Len(parent_channels[i])
            /\ Len(parent_channels[i]) <= awaiting[i]

\* a reply is in the channel, answering the one command sent after "init"
C2_Witness ==
    /\ variant = "parallel"
    /\ awaiting[0] = 1
    /\ Len(parent_channels[0]) = 1
    /\ wpc[0] = "recv"
    /\ child_pipe[0] = <<>>

\* ---------------------------------------------------------------- C3
\* the step taken sends "step" on channel i
StepSent(i) ==
    /\ Len(child_pipe'[i]) = Len(child_pipe[i]) + 1
    /\ child_pipe'[i][Len(child_pipe'[i])].cmd = "step"

\* C3: when _step sends "step" on any channel the action entries of every
\* slice already hold the caller's actions, and an action entry changes only
\* in the action write of _step, before any command of that call is sent and
\* when every earlier reply has been received (or when the buffer is created
\* or deleted and no worker process runs)
C3_ActionsBeforeStep ==
    [][variant = "parallel" =>
        /\ \A i \in Workers :
               StepSent(i) =>
                   \A j \in Workers, key \in ActionKeys :
                       shared_tensordicts[j][key] = call.td[j][key]
        /\ \A i \in Workers, key \in ActionKeys :
               shared_tensordicts'[i][key] # shared_tensordicts[i][key] =>
                   \/ /\ opc = "step_update"
                      /\ \A j \in Workers : sent[j] = 0 /\ awaiting[j] = 0
                   \/ /\ is_closed' # is_closed
                      /\ \A j \in Workers : workers[j] # "alive"]_vars

\* both action entries are written, worker 0 has its "step", worker 1 not yet
C3_Witness ==
    /\ variant = "parallel"
    /\ opc = "step_send"
    /\ k = 1
    /\ awaiting[0] = 1
    /\ shared_tensordicts[0]["action"] = 1
    /\ shared_tensordicts[1]["action"] = 2

\* ---------------------------------------------------------------- C4
\* C4: _step is fire-then-collect: while it sends, no reply has been
\* received, and when it waits for the first reply every worker has been sent
\* its "step"
C4_FireThenCollect ==
    variant = "parallel" =>
        /\ opc = "step_send" =>
               \A i \in Workers :
                   /\ sent[i] = IF i < k THEN 1 ELSE 0
                   /\ awaiting[i] = sent[i]
        /\ opc = "step_recv" =>
               \A i \in Workers :
                   /\ sent[i] = 1
                   /\ awaiting[i] = IF i < k THEN 0 ELSE 1

\* all workers are stepping at once while the orchestrator waits for the first
C4_Witness ==
    /\ variant = "parallel"
    /\ opc = "step_recv"
    /\ k = 0
    /\ \A i \in Workers : wpc[i] = "step"

\* ---------------------------------------------------------------- C5
\* the calls that send a command to workers and wait for the replies
BlockingOps == {"reset", "step", "set_seed", "state_dict", "load_state_dict"}
                   \cup GenericAttrs

\* C5: when reset, step, set_seed, state_dict, load_state_dict or a forwarded
\* call has returned normally, every addressed worker was sent one command,
\* has answered it and lives, and on no channel is a reply-bearing command
\* queued, in service or answered and unread (a worker that is past its
\* "reset" reply and has not yet looped back holds a live simulator); the
\* dispatcher handed back for an attribute that is not a method is no call
C5_ReturnMeansAllReplied ==
    (variant = "parallel" /\ opc = "idle" /\ ret.status = "ok"
        /\ ret.op \in BlockingOps
        /\ ~(ret.op \in GenericAttrs /\ ret.value.kind = "proxy")) =>
        \A i \in Workers :
            /\ NoOutstanding(i)
            /\ wpc[i] = "reset_sent" => ~env_is_done[i]
            /\ i \in ret.mask => sent[i] = 1 /\ workers[i] = "alive"

\* a forwarded call has returned after both workers ran it
C5_Witness ==
    /\ variant = "parallel"
    /\ opc = "idle"
    /\ ret.status = "ok"
    /\ ret.op \in GenericAttrs
    /\ \A i \in Workers : sent[i] = 1 /\ wpc[i] = "recv"

\* ---------------------------------------------------------------- C6
\* C6: the tensordict step returns holds exactly the keys the workers
\* updated, in ParallelEnv and in SerialEnv
C6_StepReturnsUpdatedKeys ==
    (opc = "idle" /\ ret.op = "step" /\ ret.status = "ok") =>
        ret.keys = UNION {wrote[i] : i \in Workers}

\* ---------------------------------------------------------------- C7
\* C7: a worker servicing "step" reports exactly the keys of the simulator's
\* result that are not action keys, writes the result under those keys and
\* under no other, and leaves the action entries as the orchestrator wrote them
C7_WorkerStepKeys ==
    [][\A i \in Workers :
        Replies(i, "step") =>
            /\ LastReply(i).data = StepKeys \ ActionKeys
            /\ wrote'[i] = LastReply(i).data
            /\ shared_tensordicts'[i]["next_observation"] =
                   shared_tensordicts[i]["action"]
            /\ shared_tensordicts'[i]["reward"] = 1
            /\ \A key \in BufferKeys \ LastReply(i).data :
                   shared_tensordicts'[i][key] = shared_tensordicts[i][key]
            /\ \A key \in ActionKeys :
                   /\ key \notin LastReply(i).data
                   /\ shared_tensordicts'[i][key] = shared_tensordicts[i][key]]_vars

\* worker 0 has answered a "step": result written, action entry kept
C7_Witness ==
    /\ variant = "parallel"
    /\ opc = "step_recv"
    /\ Len(parent_channels[0]) = 1
    /\ wrote[0] = {"next_observation", "reward", "done"}
    /\ shared_tensordicts[0]["action"] = 2
    /\ shared_tensordicts[0]["next_observation"] = 2

\* ---------------------------------------------------------------- C8
\* the reply tags a worker can send
ReplyTags == {"reset_obs", "step_result", "done", "closing", "seeded", "loaded",
              "state_dict"} \cup {attr \o "_done" : attr \in GenericAttrs}

\* C8: the reply to "step" is tagged "done" exactly when the simulator
\* signalled termination in that step and "step_result" otherwise; _step
\* goes on after either tag, and of all reply tags accepts these two only
C8_StepReplyTags ==
    /\ \A tag \in ReplyTags :
           StepTagAccepted(tag) <=> tag \in {"step_result", "done"}
    /\ [][/\ \A i \in Workers :
               Replies(i, "step") =>
                   /\ env_is_done'[i] <=> shared_tensordicts'[i]["done"] = 1
                   /\ LastReply(i).tag =
                          IF env_is_done'[i] THEN "done" ELSE "step_result"
          /\ (opc = "step_recv" /\ parent_channels[k] # <<>>
                 /\ parent_channels'[k] = Tail(parent_channels[k])) =>
                 /\ Head(parent_channels[k]).tag \in {"step_result", "done"}
                 /\ ret'.status # "raised"
                 /\ keys' \cup ret'.keys = keys \cup Head(parent_channels[k]).data]_vars

\* a step has returned normally after one "done" and one "step_result" reply
C8_Witness ==
    /\ variant = "parallel"
    /\ opc = "idle"
    /\ ret.op = "step"
    /\ ret.status = "ok"
    /\ env_is_done[0]
    /\ ~env_is_done[1]

C10_ResetFailsIffSelectedDone ==
    (opc = "idle" /\ ret.op = "reset"
        /\ (ret.status = "ok" \/ ret.err = "still done")) =>
        (ret.status = "raised" <=>
            \E i \in ret.mask : shared_tensordicts[i]["done"] = 1)

\* --------------------------------------------------------------- C11
\* C11: when set_seed(seed) has returned, simulator i holds the seed
\* seed + i for every i (pairwise distinct seeds) and the call has returned
\* seed + NumWorkers - 1, in ParallelEnv and in SerialEnv alike
C11_SeedPerWorker ==
    (opc = "idle" /\ ret.op = "set_seed" /\ ret.status = "ok") =>
        \E seed \in Seeds :
            /\ \A i \in Workers : env_seed[i] = seed + i
            /\ \A i, j \in Workers : i # j => env_seed[i] # env_seed[j]
            /\ ret.value = seed + NumWorkers - 1

\* ParallelEnv.set_seed(10) has returned 11 with worker 1 seeded 11
C11_Witness ==
    /\ variant = "parallel"
    /\ opc = "idle"
    /\ ret.op = "set_seed"
    /\ ret.status = "ok"
    /\ env_seed[0] = 10
    /\ env_seed[1] = 11
    /\ ret.value = env_seed[NumWorkers - 1]

\* --------------------------------------------------------------- C12
\* the orchestrator has just been started: buffer built, N workers running,
\* "init" queued first on every channel, nothing of the operation done yet
JustStarted ==
    /\ ~is_closed'
    /\ \A i \in Workers :
           /\ shared_tensordicts'[i] = NewSlice
           /\ sent'[i] = 0
           /\ variant = "parallel" =>
                  /\ workers'[i] = "alive"
                  /\ ~initialized'[i]
                  /\ child_pipe'[i] = <<InitMsg(i)>>
                  /\ parent_channels'[i] = <<>>

\* C12 (as worded): a reset, step or close call on an orchestrator that is
\* not started first performs the lazy start
C12_LazyStartAlsoOnClose ==
    [][(is_closed /\ opc = "idle"
           /\ (call'.op \in {"reset", "step", "close"}
                  \/ ret'.op \in {"reset", "step", "close"})) =>
          ~is_closed']_vars

\* C12 (amended): a reset or step call on an orchestrator that is not
\* started first builds the buffer and starts all N workers, before the
\* operation sends or writes anything (a step with a bad shape fails after
\* the start); a close call on such an orchestrator starts nothing: it
\* raises and the orchestrator stays closed, with no worker
C12_LazyStart ==
    [][(is_closed /\ opc = "idle") =>
          /\ (variant = "parallel" /\ call'.op \in {"reset", "step"}) => JustStarted
          /\ (variant = "parallel" /\ ret'.op = "step") =>
                 JustStarted /\ ret'.err = "shape"
          /\ (variant = "serial" /\ ret'.op \in {"reset", "step"}) => ~is_closed'
          /\ ret'.op = "close" =>
                 /\ ret'.status = "raised"
                 /\ is_closed'
                 /\ \A i \in Workers : workers'[i] = "none" /\ child_pipe'[i] = <<>>]_vars

\* the first reset after construction has started the workers and has not
\* yet sent its first "reset"
C12_Witness ==
    /\ variant = "parallel"
    /\ opc = "reset_send"
    /\ k = 0
    /\ sent = Zeros
    /\ \A i \in Workers : workers[i] = "alive" /\ child_pipe[i] = <<InitMsg(i)>>

C14_ClosedFlagFollowsLifecycle ==
    /\ [](variant = "parallel" /\ opc = "idle" /\ ret.status = "ok" =>
              /\ ret.op \in {"reset", "step"} =>
                     ~is_closed /\ \A i \in ret.mask : workers[i] = "alive"
              /\ ret.op = "close" =>
                     /\ is_closed
                     /\ \A i \in Workers :
                            /\ workers[i] = "none"
                            /\ child_pipe[i] = <<>>
                            /\ parent_channels[i] = <<>>
                            /\ shared_tensordicts[i] = NewSlice)
    /\ [][variant = "parallel" =>
             /\ (is_closed /\ call'.op = "reset") => JustStarted
             /\ (is_closed /\ ~is_closed') => JustStarted
             /\ (~is_closed /\ is_closed') =>
                    opc = "close_join" /\ ret'.op = "close" /\ ret'.status = "ok"]_vars

\* a close has succeeded on a ParallelEnv: the workers a reset or step had
\* started are gone and the orchestrator is closed
C14_Witness ==
    /\ variant = "parallel"
    /\ opc = "idle"
    /\ ret.op = "close"
    /\ ret.status = "ok"
    /\ is_closed
    /\ \A i \in Workers : workers[i] = "none" /\ sent[i] = 1

\* --------------------------------------------------------------- C15
\* C15: a ParallelEnv.close() that goes through has sent "close" to every
\* worker, exactly once, and received "closing" from each before it releases
\* the channels and joins; the orchestrator is not closed while the shutdown
\* runs and is marked closed in a step in which every worker process has
\* ended; when close() has returned no worker process runs
C15_CloseShutsDownAll ==
    /\ [](variant = "parallel" =>
              /\ opc \in {"close_send", "close_recv", "close_join"} => ~is_closed
              /\ opc \in {"close_send", "close_recv"} =>
                     \A i \in Workers :
                         /\ sent[i] = IF i < k \/ (i = k /\ opc = "close_recv")
                                      THEN 1 ELSE 0
                         /\ awaiting[i] = IF i = k /\ opc = "close_recv" THEN 1 ELSE 0
              /\ opc = "close_join" =>
                     \A i \in Workers :
                         /\ sent[i] = 1
                         /\ awaiting[i] = 0
                         /\ parent_channels[i] = <<>>
                         /\ workers[i] = "exited" \/ wpc[i] = "closing"
              /\ (opc = "idle" /\ ret.op = "close" /\ ret.status = "ok") =>
                     /\ is_closed
                     /\ \A i \in Workers : workers[i] # "alive" /\ sent[i] = 1)
    /\ [][variant = "parallel" =>
             /\ \A i \in Workers :
                    Replies(i, "close") => LastReply(i).tag = "closing"
             /\ (opc = "close_recv" /\ opc' # "close_recv" /\ ret'.status # "raised") =>
                    Head(parent_channels[k]).tag = "closing"
             /\ (~is_closed /\ is_closed') =>
                    \A i \in Workers : workers[i] = "exited"]_vars

\* the shutdown has both "closing" replies and waits in join for worker 1,
\* which has replied and not yet ended; worker 0 has ended
C15_Witness ==
    /\ variant = "parallel"
    /\ opc = "close_join"
    /\ workers[0] = "exited"
    /\ workers[1] = "alive"
    /\ wpc[1] = "closing"


\* ---- C16
\* the worker acts on the command cmd in this step
Handles(i, cmd) == workers[i] = "alive" /\ wpc[i] = cmd /\ (wpc'[i] # cmd \/ workers'[i] # "alive")

\* the worker leaves every trace of its work as it is in this step
NoEffect(i) ==
    /\ parent_channels'[i] = parent_channels[i]
    /\ shared_tensordicts'[i] = shared_tensordicts[i]
    /\ env_seed'[i] = env_seed[i]
    /\ env_state'[i] = env_state[i]
    /\ nreset'[i] = nreset[i]

\* C16: a worker goes from uninitialized to initialized to closed and never
\* back: "init" is accepted only while uninitialized (a second "init" ends the
\* loop with an error), "reset", "step" and "seed" are serviced only once
\* initialized (before that they end the loop with an error and have no
\* effect), and on "close" the worker replies "closing", leaves its loop and
\* never services another command
C16_WorkerLifecycle ==
    [][\A i \in Workers :
         /\ initialized[i] => initialized'[i]
         /\ Handles(i, "init") =>
                /\ NoEffect(i)
                /\ IF initialized[i] \/ ~is_shared_or_memmap(wdata[i])
                   THEN workers'[i] = "raised" /\ initialized'[i] = initialized[i]
                   ELSE initialized'[i] /\ workers'[i] = "alive"
         /\ \A cmd \in {"reset", "step", "seed"} :
                (Handles(i, cmd) /\ ~initialized[i]) =>
                    workers'[i] = "raised" /\ NoEffect(i) /\ ~initialized'[i]
         /\ (Handles(i, "close") /\ initialized[i]) =>
                /\ parent_channels'[i] = Append(parent_channels[i], Reply("closing", {}))
                /\ wpc'[i] = "closing"
         /\ wpc[i] = "closing" /\ (wpc'[i] # wpc[i] \/ workers'[i] # workers[i]) =>
                workers'[i] = "exited"
         /\ workers[i] \in Dead =>
                /\ workers'[i] = workers[i]
                /\ wpc'[i] = "recv"
                /\ Len(parent_channels'[i]) <= Len(parent_channels[i])
                /\ shared_tensordicts'[i] = shared_tensordicts[i]
                /\ env_seed'[i] = env_seed[i] /\ nreset'[i] = nreset[i]
                /\ child_pipe'[i] = <<>>]_vars

\* a worker that was initialized and closed has ended
C16_Witness ==
    /\ workers[DrivenWorker] = "exited"
    /\ initialized[DrivenWorker]
    /\ sent[DrivenWorker] = MaxCommands
    /\ Len(parent_channels[DrivenWorker]) = 2
    /\ parent_channels[DrivenWorker][2].tag = "closing"


\* --------------------------------------------------------------- C17
\* the caller's thread, not a worker, takes this step
CallerActs ==
    /\ opc = "idle"
    /\ (wpc' = wpc /\ workers' = workers) \/ (is_closed /\ ~is_closed')

\* the caller's step call was given a batch whose leading shape is not [N]
BadStepCall == CallerActs /\ ret'.op = "step" /\ ret'.mask # Workers

\* C17 (as worded): a step with a batch whose leading shape is not [N] raises
\* before any command is sent to any worker and without modifying the buffer
C17_ShapeErrorBeforeAnyCommand ==
    [][BadStepCall =>
          /\ ret'.status = "raised" /\ ret'.err = "shape"
          /\ child_pipe' = child_pipe
          /\ shared_tensordicts' = shared_tensordicts]_vars

\* C17 (amended): a step with a batch whose leading shape is not [N] raises
\* the shape error; on a started orchestrator it does so with nothing sent to
\* any worker and the buffer as it was; on an orchestrator that is not
\* started the lazy start comes first (buffer built, N workers spawned,
\* "init" sent to each) and the error follows with no "step" sent. A step
\* that goes on was given a batch of leading shape [N]
C17_ShapeErrorBeforeStep ==
    [][(CallerActs =>
          /\ BadStepCall =>
                /\ ret'.status = "raised" /\ ret'.err = "shape"
                /\ opc' = "idle"
                /\ sent' = Zeros
                /\ IF is_closed THEN JustStarted
                   ELSE /\ shared_tensordicts' = shared_tensordicts
                        /\ UNCHANGED <<is_closed, pipeVars, workerVars>>
          /\ call'.op = "step" => DOMAIN call'.td = Workers)]_vars

\* a step with one action too few has been refused by a ParallelEnv whose
\* buffer holds the results of earlier work
C17_Witness ==
    /\ variant = "parallel"
    /\ opc = "idle"
    /\ ret.op = "step" /\ ret.err = "shape" /\ ret.mask # Workers
    /\ ~is_closed
    /\ \A i \in Workers : initialized[i] /\ shared_tensordicts[i]["observation"] # 0


\* --------------------------------------------------------------- C18
\* The orchestrator against a channel peer that answers every command with
\* any tag: what the orchestrator does with a reply is its own code, whatever
\* program holds the child end of the pipe.
InitWire == Init /\ variant = "parallel"

\* the peer takes the oldest command of channel i and answers it with tag;
\* "init" has no reply, and after "close" the peer ends
Wire_reply(i, tag) ==
    /\ workers[i] = "alive"
    /\ child_pipe[i] # <<>>
    /\ LET m == Head(child_pipe[i]) IN
       /\ child_pipe' = [child_pipe EXCEPT ![i] = Tail(@)]
       /\ parent_channels' =
              IF m.cmd = "init" THEN parent_channels
              ELSE [parent_channels EXCEPT ![i] = Append(@, Reply(tag, {}))]
       /\ initialized' = [initialized EXCEPT ![i] = TRUE]
       /\ workers' = [workers EXCEPT ![i] = IF m.cmd = "close" THEN "exited" ELSE @]
       /\ werr' = werr
    /\ UNCHANGED <<orchVars, histVars, shared_tensordicts, wpc, wdata,
                   env_is_done, env_seed, env_state>>

WireNext == \E i \in Workers, tag \in ReplyTags : Wire_reply(i, tag)

NextWire == ParallelNext \/ WireNext

SpecWire == InitWire /\ [][NextWire]_vars

\* the tags with which the worker loop answers the command of the call op
ExpectedTags(op) ==
    CASE op = "step" -> {"step_result", "done"}
      [] op = "reset" -> {"reset_obs"}
      [] op = "set_seed" -> {"seeded"}
      [] op = "state_dict" -> {"state_dict"}
      [] op = "load_state_dict" -> {"loaded"}
      [] op = "close" -> {"closing"}
      [] OTHER -> {op \o "_done"}

\* the calls whose command the worker loop knows by name
NamedOps == {"step", "reset", "set_seed", "state_dict", "load_state_dict", "close"}

\* the running call takes from channel k a reply whose tag is not one the
\* worker loop gives to the call's command
ReceivesUnexpected ==
    /\ call.op # "none"
    /\ opc # "close_join"
    /\ parent_channels[k] # <<>>
    /\ parent_channels'[k] = Tail(parent_channels[k])
    /\ Head(parent_channels[k]).tag \notin ExpectedTags(call.op)

\* C18 (as worded): for every command the orchestrator sends (seed, reset,
\* step, state_dict, load_state_dict, close and a generic forwarded request),
\* a reply whose tag is not the expected one makes the call fail with a
\* protocol error instead of returning a result
C18_UnexpectedTagFails ==
    [][ReceivesUnexpected => ret'.status = "raised" /\ ret'.err = "protocol"]_vars

\* C18, the commands known by name only: seed, reset, step, state_dict,
\* load_state_dict and close fail with a protocol error on an unexpected tag
C18_NamedCommandsCheckTags ==
    [][(ReceivesUnexpected /\ call.op \in NamedOps) =>
          ret'.status = "raised" /\ ret'.err = "protocol"]_vars


\* --------------------------------------------------------------- C19
\* C19: a worker that receives "step" while its simulator is terminated does
\* not step it, writes nothing to its slice, sends no reply and ends; the
\* step call of the orchestrator then cannot return a batch: it ends with
\* the error of the broken channel
C19_StepOnTerminatedIsFatal ==
    [][variant = "parallel" =>
         /\ \A i \in Workers :
                (Handles(i, "step") /\ initialized[i] /\ env_is_done[i]) =>
                    /\ workers'[i] = "raised"
                    /\ NoEffect(i)
                    /\ wrote'[i] = wrote[i]
                    /\ env_is_done'[i]
         /\ (opc \in {"step_send", "step_recv"} /\ opc' = "idle") =>
                IF \E i \in Workers : workers[i] \in Dead
                THEN /\ ret'.status = "raised"
                     /\ ret'.err \in {"EOFError", "BrokenPipeError"}
                     /\ fatal'
                ELSE ret'.status = "ok"]_vars

\* worker 1 ended on a "step" for its terminated simulator, and the step
\* call, which had worker 0's reply, failed at the end of worker 1's channel
C19_Witness ==
    /\ variant = "parallel"
    /\ opc = "idle"
    /\ ret.op = "step" /\ ret.status = "raised" /\ ret.err = "EOFError"
    /\ workers[0] = "alive" /\ wrote[0] # {}
    /\ workers[1] = "raised" /\ env_is_done[1] /\ wrote[1] = {}
    /\ sent[1] = 1


\* --------------------------------------------------------------- C20
\* RuntimeError(f"querying {cmd} from env resulted in the following error: {err}")
WrappedError(cmd) == "querying " \o cmd \o " from env resulted in the following error"

\* C20: a worker servicing a generic request either replies or, when its
\* simulator raises, ends with the error wrapped with the name of the
\* command, having sent no reply; the forwarded call of the orchestrator
\* then fails as a whole: it returns only with the reply of every worker,
\* never with the results of some
C20_GenericFailureIsWhole ==
    [][variant = "parallel" =>
         /\ \A i \in Workers, attr \in GenericAttrs :
                Handles(i, attr) =>
                    \/ /\ workers'[i] = "alive"
                       /\ parent_channels'[i] =
                              Append(parent_channels[i],
                                     Reply(attr \o "_done",
                                           getattr_result(i, attr, wdata[i])))
                    \/ /\ workers'[i] = "raised"
                       /\ werr'[i] = WrappedError(attr)
                       /\ NoEffect(i)
         /\ (opc \in {"getattr_send", "getattr_recv"} /\ opc' = "idle") =>
                IF \E i \in Workers : workers[i] \in Dead
                THEN /\ ret'.status = "raised"
                     /\ ret'.err \in {"EOFError", "BrokenPipeError"}
                     /\ fatal'
                ELSE /\ ret'.status = "ok"
                     /\ opc = "getattr_recv" /\ k = NumWorkers - 1
                     /\ \A i \in Workers : sent[i] = 1 /\ awaiting'[i] = 0]_vars

\* worker 0 answered the forwarded request, the simulator of worker 1 raised
\* in it, and the forwarded call failed after reading worker 0's reply
C20_Witness ==
    /\ variant = "parallel"
    /\ opc = "idle"
    /\ ret.op \in GenericAttrs /\ ret.status = "raised" /\ ret.err = "EOFError"
    /\ workers[0] = "alive" /\ sent[0] = 1 /\ awaiting[0] = 0
    /\ workers[1] = "raised" /\ \E attr \in GenericAttrs : werr[1] = WrappedError(attr)


\* --------------------------------------------------------------- C21
\* what a worker can be servicing besides "init"
NonInitCmds == (ProtocolCmds \ {"init"}) \cup GenericAttrs

\* C21 (as worded): a worker that receives any command other than "init"
\* before it has processed "init" fails fatally: it does not touch its
\* simulator, sends no reply and terminates
C21_PreInitCommandsFatal ==
    [][\A i \in Workers, cmd \in NonInitCmds :
          (Handles(i, cmd) /\ ~initialized[i]) =>
              workers'[i] = "raised" /\ NoEffect(i)]_vars


\* --------------------------------------------------------------- C22
\* C22: "init" on an uninitialized worker succeeds exactly when the slice it
\* is handed is in shared memory or memory-mapped; otherwise the worker ends
\* with an error at "init", replies nothing, and is never initialized
C22_InitNeedsSharedStorage ==
    /\ [][\A i \in Workers :
            (Handles(i, "init") /\ ~initialized[i]) =>
                IF wdata[i].storage \in {"shared", "memmap"}
                THEN initialized'[i] /\ workers'[i] = "alive" /\ werr'[i] = ""
                ELSE /\ workers'[i] = "raised"
                     /\ werr'[i] = StorageError
                     /\ ~initialized'[i]
                     /\ NoEffect(i)]_vars
    /\ [](\A i \in Workers :
            (workers[i] = "raised" /\ werr[i] = StorageError) => ~initialized[i])

\* a worker handed a slice that is neither shared nor memory-mapped has
\* ended at "init", its first command
C22_Witness ==
    /\ workers[DrivenWorker] = "raised"
    /\ werr[DrivenWorker] = StorageError
    /\ ~initialized[DrivenWorker]
    /\ sent[DrivenWorker] = 1
    /\ parent_channels[DrivenWorker] = <<>>


\* --------------------------------------------------------------- C23
\* worker i takes a step of its loop
WorkerActs(i) == wpc'[i] # wpc[i]

\* the channels of worker i are opened or closed as a whole: a start, the
\* end of the worker's process, the end of a shutdown
ChannelReset(i) == is_closed' # is_closed \/ workers'[i] # workers[i]

\* C23: on each channel the worker takes the commands one at a time, oldest
\* first, each only after it has finished with the one before, and its
\* replies are read by the orchestrator oldest first, so that every reply
\* the orchestrator reads answers the command it is waiting on (no call ever
\* ends in a protocol error); a step of one worker touches nothing of
\* another worker, so no order among the workers is needed
C23_PerChannelOrder ==
    /\ [](ret.err # "protocol")
    /\ [][\A i \in Workers :
            /\ (child_pipe'[i] # child_pipe[i] /\ ~ChannelReset(i)) =>
                   \/ /\ Len(child_pipe'[i]) = Len(child_pipe[i]) + 1
                      /\ SubSeq(child_pipe'[i], 1, Len(child_pipe[i])) = child_pipe[i]
                      /\ ~WorkerActs(i)
                   \/ /\ child_pipe[i] # <<>>
                      /\ child_pipe'[i] = Tail(child_pipe[i])
                      /\ wpc[i] = "recv"
                      /\ wpc'[i] = Head(child_pipe[i]).cmd
                      /\ wdata'[i] = Head(child_pipe[i]).data
            /\ (parent_channels'[i] # parent_channels[i] /\ ~ChannelReset(i)) =>
                   \/ /\ Len(parent_channels'[i]) = Len(parent_channels[i]) + 1
                      /\ SubSeq(parent_channels'[i], 1, Len(parent_channels[i])) =
                             parent_channels[i]
                      /\ WorkerActs(i)
                      /\ wpc[i] \notin {"recv", "reset_sent", "closing"}
                   \/ /\ parent_channels[i] # <<>>
                      /\ parent_channels'[i] = Tail(parent_channels[i])
                      /\ k = i
                      /\ ~WorkerActs(i)
            /\ WorkerActs(i) =>
                   \A j \in Workers \ {i} :
                       /\ shared_tensordicts'[j] = shared_tensordicts[j]
                       /\ child_pipe'[j] = child_pipe[j]
                       /\ parent_channels'[j] = parent_channels[j]
                       /\ workers'[j] = workers[j]
                       /\ initialized'[j] = initialized[j]
                       /\ wpc'[j] = wpc[j]
                       /\ env_is_done'[j] = env_is_done[j]
                       /\ env_seed'[j] = env_seed[j]]_vars

\* worker 1 has answered its "reset" while worker 0 has read neither its
\* "init" nor its "reset", which wait on its channel in that order
C23_Witness ==
    /\ variant = "parallel"
    /\ opc = "reset_recv"
    /\ child_pipe[0] = <<InitMsg(0), Msg("reset", {})>>
    /\ Len(parent_channels[1]) = 1
    /\ parent_channels[1][1].tag = "reset_obs"


\* --------------------------------------------------------------- C24
\* the keys of the Frame ParallelEnv returns from reset or step: the union
\* of the key sets its workers reported, which are the keys they wrote
ParallelFrameKeys == UNION {wrote[i] : i \in ret.mask}

\* C24 (as worded): with the same simulators, seed, reset and step leave
\* SerialEnv with the same return value and the same Frame as ParallelEnv:
\* in either variant seed returns the seed of the last simulator, and reset
\* and step return the Frame of the keys the simulators have written, which
\* is what ParallelEnv returns
C24_SerialEqualsParallel ==
    (opc = "idle" /\ ret.status = "ok") =>
        /\ ret.op = "set_seed" => ret.value = env_seed[NumWorkers - 1]
        /\ ret.op \in {"reset", "step"} => ret.keys = ParallelFrameKeys

\* C24, ParallelEnv alone: the Frame it returns from reset and step has the
\* keys its workers wrote
C24_ParallelReference ==
    (variant = "parallel" /\ opc = "idle" /\ ret.status = "ok") =>
        /\ ret.op = "set_seed" => ret.value = env_seed[NumWorkers - 1]
        /\ ret.op \in {"reset", "step"} => ret.keys = ParallelFrameKeys

\* C24, SerialEnv up to its first step: seed and reset return what
\* ParallelEnv returns
C24_SerialSeedAndReset ==
    (variant = "serial" /\ opc = "idle" /\ ret.status = "ok") =>
        /\ ret.op = "set_seed" => ret.value = env_seed[NumWorkers - 1]
        /\ ret.op = "reset" => ret.keys = ParallelFrameKeys

\* ------------------------------------------------------------- C25
\* the mapping state_dict() returns while every simulator is as it is now
CurrentStateDict == [j \in 1 .. NumWorkers |-> Item(WorkerKey(j - 1), env_state[j - 1])]

\* state_dict() has just returned to the caller
Saved == opc = "idle" /\ ret.op = "state_dict" /\ ret.status = "ok"

\* a load_state_dict call is running whose argument is the current states
RoundTrip == call.op = "load_state_dict" /\ call.td = CurrentStateDict

\* C25: load_state_dict(state_dict()) leaves the state of every worker's
\* simulator unchanged: the call that hands back what state_dict() has just
\* returned changes no simulator state when it starts, while it runs, or when
\* it returns, in either variant.
C25_RoundTripKeepsStates ==
    [][/\ (Saved /\ Serial_load_state_dict(ret.value)) => env_state' = env_state
       /\ (Saved /\ Parallel_load_state_dict_call(ret.value)) =>
              env_state' = env_state /\ RoundTrip'
       /\ RoundTrip => /\ env_state' = env_state
                       /\ RoundTrip' \/ opc' = "idle"]_vars

\* every worker has loaded its entry of a mapping equal to the current
\* states, which are not the states the simulators were created with
C25_Witness ==
    /\ variant = "parallel"
    /\ opc = "load_state_dict_recv"
    /\ RoundTrip
    /\ env_state # InitialStates
    /\ \A i \in Workers :
           /\ wpc[i] = "recv" /\ child_pipe[i] = <<>>
           /\ parent_channels[i] = <<Reply("loaded", {})>>

\* ------------------------------------------------------------- C26
\* the mapping worker i is to load when load_state_dict is given state_dict
EntryFor(state_dict, i) ==
    IF HasKey(state_dict, "worker0") THEN Get(state_dict, WorkerKey(i)) ELSE state_dict

\* load_state_dict has just returned to the caller
Loaded == opc = "idle" /\ ret.op = "load_state_dict" /\ ret.status = "ok"

\* C26: state_dict() returns a mapping with exactly the keys worker0 ..
\* worker{N-1}, in index order, whose entry worker{i} is the state of worker
\* i's simulator. load_state_dict given a mapping with the key worker0 loads
\* entry worker{i} into worker i, wherever the entry stands in the mapping;
\* given a mapping without worker0 it loads the whole mapping into every
\* worker. Both hold in both variants.
C26_StateDictLayout ==
    /\ [](Saved => /\ Len(ret.value) = NumWorkers
                   /\ \A i \in Workers :
                          ret.value[i + 1] = Item(WorkerKey(i), env_state[i]))
    /\ [][\A sd \in StateDicts :
             /\ Serial_load_state_dict(sd) =>
                    Loaded' /\ \A i \in Workers : env_state'[i] = EntryFor(sd, i)
             /\ Parallel_load_state_dict_call(sd) =>
                    \A i \in Workers : Get(call'.td, WorkerKey(i)) = EntryFor(sd, i)]_vars
    /\ [][(call.op = "load_state_dict" /\ Loaded') =>
              \A i \in Workers : env_state'[i] = Get(call.td, WorkerKey(i))]_vars

\* the parallel orchestrator has loaded a mapping that gives the first worker
\* the state the last one was created with, and the last worker another
C26_Witness ==
    /\ variant = "parallel"
    /\ Loaded
    /\ env_state[0] = SimState(NumWorkers)
    /\ env_state[NumWorkers - 1] = SimState(1)

\* ------------------------------------------------------------- C27
\* a generic query has just returned to the caller
Queried == opc = "idle" /\ ret.op \in GenericAttrs /\ ret.status = "ok"

\* the returned object is a list of N values, the i-th from the simulator of
\* worker i, for the attribute asked and, for a method, the arguments given
OrderedResults ==
    /\ ret.value.kind = "list"
    /\ Len(ret.value.items) = NumWorkers
    /\ \A i \in Workers :
           /\ ret.value.items[i + 1].worker = i
           /\ ret.value.items[i + 1].attr = ret.op
           /\ ret.value.items[i + 1].args \in
                  (IF callable(ret.op) THEN GenericArgs ELSE {<<>>})

\* C27: a generic attribute or method query on a started orchestrator
\* returns an ordered list of exactly N values whose i-th element comes from
\* worker i, for a method called with the given arguments and for any other
\* attribute, in both variants.
C27_GenericQueryReturnsList == Queried => OrderedResults

\* what the source does: the list is returned by SerialEnv, by a forwarded
\* method of ParallelEnv and by iterating over the object ParallelEnv returns
\* for an attribute that is not a method; that object itself is no list
C27_ListOrDispatcher ==
    Queried =>
        IF variant = "parallel" /\ ~callable(ret.op) /\ ret.value.kind = "proxy"
        THEN ret.value = Proxy(ret.op) /\ \A i \in Workers : sent[i] = 0
        ELSE OrderedResults

\* ParallelEnv hands back its dispatcher for the attribute, no worker asked
C27_DispatcherReturned ==
    /\ variant = "parallel"
    /\ Queried
    /\ ret.op = "custom_attribute"
    /\ ret.value = Proxy("custom_attribute")
    /\ \A i \in Workers : workers[i] = "alive" /\ initialized[i]

\* ------------------------------------------------------------- C28
\* the caller makes a generic query on an orchestrator that is not started
QueryNotStarted(attr) ==
    /\ is_closed
    /\ \E args \in GenericArgs :
           Parallel_getattr_call(attr, args) \/ Serial_getattr(attr, args)

\* nothing is started and nothing is sent
NothingStarted ==
    /\ is_closed'
    /\ workers' = workers
    /\ child_pipe' = child_pipe
    /\ \A i \in Workers : sent'[i] = 0

\* C28: generic attribute or method access on an orchestrator that has not
\* been started (never started, or closed), for methods and other attributes
\* and in both variants, raises the "not started" error, starts no worker and
\* sends no message.
C28_NotStartedAccessRaises ==
    [][\A attr \in GenericAttrs :
          QueryNotStarted(attr) =>
              /\ ret'.op = attr /\ ret'.status = "raised" /\ ret'.err = "not started"
              /\ NothingStarted]_vars

\* what the source does: the access fails and starts nothing in both
\* variants, with the "not started" error in ParallelEnv and with an
\* AttributeError in SerialEnv
C28_NotStartedAccessFails ==
    [][\A attr \in GenericAttrs :
          QueryNotStarted(attr) =>
              /\ ret'.op = attr /\ ret'.status = "raised"
              /\ ret'.err = (IF variant = "parallel" THEN "not started"
                             ELSE "AttributeError")
              /\ NothingStarted]_vars

\* SerialEnv, not started, has answered a query with an AttributeError
C28_SerialAttributeError ==
    /\ variant = "serial"
    /\ is_closed
    /\ opc = "idle"
    /\ ret.op \in GenericAttrs /\ ret.status = "raised" /\ ret.err = "AttributeError"

\* ------------------------------------------------------------- C29
\* the buffer a step starts from: a lazy start builds it anew
BufferAtStep == IF is_closed THEN [i \in Workers |-> NewSlice] ELSE shared_tensordicts

\* C29: step copies into the shared buffer only the action keys of the
\* caller's batch: the buffer entry of any other key of the batch is left as
\* it was (unless the simulator itself writes it during the step), in
\* ParallelEnv and in SerialEnv.
C29_StepCopiesActionKeysOnly ==
    [][/\ (opc = "step_update" /\ opc' = "step_send") =>
              \A i \in Workers :
                  /\ \A key \in ActionKeys :
                         shared_tensordicts'[i][key] = call.td[i][key]
                  /\ \A key \in BufferKeys \ ActionKeys :
                         shared_tensordicts'[i][key] = shared_tensordicts[i][key]
       /\ \A td \in ActionBatches \cup FullBatches :
              (Serial_step(td, TRUE) /\ ret'.status = "ok") =>
                  \A i \in Workers :
                      \A key \in (DOMAIN td[i]) \ (ActionKeys \cup StepKeys) :
                          shared_tensordicts'[i][key] = BufferAtStep[i][key]]_vars

\* the copy of ParallelEnv._step alone, which selects the action keys
C29_ParallelCopiesActionKeysOnly ==
    [][(opc = "step_update" /\ opc' = "step_send") =>
           \A i \in Workers :
               /\ \A key \in ActionKeys :
                      shared_tensordicts'[i][key] = call.td[i][key]
               /\ \A key \in BufferKeys \ ActionKeys :
                      shared_tensordicts'[i][key] = shared_tensordicts[i][key]]_vars

\* ParallelEnv has copied the actions of a batch that also carries an
\* observation, and the observation of the buffer is the one reset left
C29_ParallelKeepsObservation ==
    /\ variant = "parallel"
    /\ opc = "step_send"
    /\ call.td \in FullBatches
    /\ \A i \in Workers :
           /\ shared_tensordicts[i]["observation"] = 1
           /\ shared_tensordicts[i]["action"] = call.td[i]["action"]

\* SerialEnv has stepped on such a batch and the observation of the batch
\* stands in the buffer
C29_SerialOverwritesObservation ==
    /\ variant = "serial"
    /\ opc = "idle" /\ ret.op = "step" /\ ret.status = "ok"
    /\ \A i \in Workers : shared_tensordicts[i]["observation"] = 2

\* ------------------------------------------------------------- C30
\* every action key is one of the selected keys
ActionKeysSelected(c) ==
    c.action_keys.given => c.action_keys.keys \subseteq c.selected_keys.keys

\* the errors _create_td raises about the key lists
ConfigErrors == {"KeyError", "RuntimeError"}

\* C30: for every combination of given or absent action_keys, selected_keys
\* and excluded_keys, start-up succeeds only if every action key belongs to
\* the resolved selected keys; a call that does not start the orchestrator
\* ends in a configuration error and no worker is started.
C30_StartNeedsActionKeysSelected ==
    [][/\ (is_closed /\ ~is_closed') => ActionKeysSelected(config')
       /\ (is_closed /\ is_closed' /\ ret' # ret) =>
              /\ ret'.status = "raised" /\ ret'.err \in ConfigErrors
              /\ workers' = workers /\ child_pipe' = child_pipe]_vars

\* what the source does: the action keys are looked at only while
\* selected_keys is None, which it is on the first start of an orchestrator
\* given no selected_keys and never after
C30_ValidatedWithoutSelectedKeys ==
    [][/\ (is_closed /\ ~is_closed' /\ ~config.selected_keys.given) =>
              ActionKeysSelected(config')
       /\ (is_closed /\ is_closed' /\ ret' # ret) =>
              /\ ret'.status = "raised" /\ ret'.err \in ConfigErrors
              /\ ~config.selected_keys.given /\ config'.selected_keys.given
              /\ workers' = workers /\ child_pipe' = child_pipe]_vars

\* started with a selected_keys list that lacks the action key given
C30_StartedWithUnselectedActionKey ==
    /\ ~is_closed
    /\ config = [action_keys |-> Given({"action"}),
                 selected_keys |-> Given({"observation", "done"}),
                 excluded_keys |-> Absent]
    /\ opc = "idle" /\ ret.op = "state_dict" /\ ret.status = "ok"

\* refused for an excluded action key, then started by the next call
C30_StartedAfterRefusal ==
    /\ ~is_closed
    /\ config = [action_keys |-> Given({"action"}),
                 selected_keys |-> Given(BufferKeys \ {"action"}),
                 excluded_keys |-> Given({"action"})]
    /\ opc = "idle" /\ ret.op = "state_dict" /\ ret.status = "ok"

\* refused: an action key is excluded and nothing is started
C30_Refused ==
    /\ is_closed
    /\ ret.op = "state_dict" /\ ret.status = "raised" /\ ret.err = "KeyError"
    /\ \A i \in Workers : workers[i] = "none"

\* ------------------------------------------------------------- C31
\* the allow-list of c, or every key of the trial reset/step when none is
\* given, minus the exclude-list of c
Resolved(c) ==
    (IF c.selected_keys.given THEN c.selected_keys.keys ELSE BufferKeys)
        \ (IF c.excluded_keys.given THEN c.excluded_keys.keys ELSE {})

\* the step taken starts the orchestrator
Starts == is_closed /\ ~is_closed'

\* C31: the selected keys resolved at start-up are the explicit allow-list
\* (every key of the trial reset/step when none is given) minus the
\* exclude-list, at the first start and at every restart of the orchestrator.
C31_SelectedKeysResolved ==
    [][Starts => config'.selected_keys = Given(Resolved(config))]_vars

\* what the source does: the exclude-list is taken off only when no
\* allow-list is given; the set is assigned once and every restart finds it
C31_ExcludedOnlyWithoutAllowList ==
    [][/\ Starts =>
              config'.selected_keys =
                  IF config.selected_keys.given THEN config.selected_keys
                  ELSE Given(Resolved(config))
       /\ config.selected_keys.given => config'.selected_keys = config.selected_keys
       /\ opc # "new" => config'.excluded_keys = config.excluded_keys]_vars

\* started with an allow-list that holds a key of the exclude-list
C31_ExcludedKeySelected ==
    /\ ~is_closed
    /\ config.selected_keys = Given({"action", "observation", "done"})
    /\ config.excluded_keys = Given({"action"})
    /\ opc = "idle" /\ ret.op = "state_dict" /\ ret.status = "ok"

\* ------------------------------------------------------------- C32
\* a factory list whose length differs from num_workers
Mismatched(create_env_fn) == ~create_env_fn.callable /\ create_env_fn.len # NumWorkers

\* the configuration errors __init__ raises
ConstructionErrors == {MismatchError, ExclusiveError}

\* no worker exists and nothing is in any channel
NoWorkerStarted ==
    /\ \A i \in Workers : workers[i] = "none"
    /\ \A i \in Workers : child_pipe[i] = <<>> /\ parent_channels[i] = <<>>

\* C32: constructing an orchestrator with a factory list whose length differs
\* from num_workers, or with shared memory and memory map both requested,
\* fails at construction with a configuration error; no worker is started and
\* the orchestrator is never in a started state, then or later.
C32_BadConstructionFails ==
    [][/\ \A create_env_fn \in CreateEnvFns, shared_memory \in BOOLEAN,
             memmap \in BOOLEAN, c \in Configs :
              (/\ BatchedEnv_init(create_env_fn, shared_memory, memmap, c)
               /\ (Mismatched(create_env_fn) \/ (shared_memory /\ memmap))) =>
                  /\ ret'.op = "__init__" /\ ret'.status = "raised"
                  /\ ret'.err = (IF Mismatched(create_env_fn) THEN MismatchError
                                 ELSE ExclusiveError)
                  /\ opc' = "failed"
                  /\ is_closed' /\ NoWorkerStarted'
       /\ opc = "failed" => (opc' = "failed" /\ is_closed' /\ NoWorkerStarted')]_vars

\* construction was refused for the two placements requested together
C32_Witness ==
    /\ opc = "failed"
    /\ ret.op = "__init__" /\ ret.status = "raised" /\ ret.err = ExclusiveError
    /\ is_closed /\ NoWorkerStarted

\* construction was refused for the length of the factory list
C32_MismatchRefused ==
    /\ opc = "failed"
    /\ ret.op = "__init__" /\ ret.status = "raised" /\ ret.err = MismatchError
    /\ is_closed /\ NoWorkerStarted

\* ------------------------------------------------------------- C33
\* C33: on every exit path of construction, normal or with a configuration
\* error, every trial simulator that was created has been closed.
C33_TrialSimulatorClosed ==
    opc # "new" => dummy_env # "live"

\* what the source does: the trial simulator is closed on the normal path and
\* not created on the path of the length test; the path of the placement
\* test leaves it live
C33_LeakOnlyOnExclusiveError ==
    /\ (opc # "new" /\ ret.op = "__init__" /\ ret.status = "ok") => dummy_env = "closed"
    /\ (opc = "failed" /\ ret.err = MismatchError) => dummy_env = "none"
    /\ (opc = "failed" /\ ret.err = ExclusiveError) => dummy_env = "live"
    /\ opc \notin {"new", "failed"} => dummy_env = "closed"

\* construction has ended normally, the trial simulator closed
C33_ClosedAfterConstruction ==
    /\ opc = "idle" /\ ret.op = "__init__" /\ ret.status = "ok"
    /\ dummy_env = "closed"

\* ------------------------------------------------------------- C34
\* C34: once started, the buffer of ParallelEnv is in shared or memory-mapped
\* storage and the buffer of SerialEnv is in neither, whatever the flags the
\* orchestrator was constructed with.
C34_PlacementFollowsVariant ==
    ~is_closed =>
        /\ variant = "parallel" => storage \in {"shared", "memmap"}
        /\ variant = "serial" => storage = "none"

\* what the source does: the placement follows the two flags alone, in both
\* variants, and stays as constructed
C34_PlacementFollowsFlags ==
    [][/\ \A create_env_fn \in CreateEnvFns, shared_memory \in BOOLEAN,
             memmap \in BOOLEAN, c \in Configs :
              (/\ BatchedEnv_init(create_env_fn, shared_memory, memmap, c)
               /\ ret'.status = "ok") =>
                  storage' = placement(shared_memory, memmap)
       /\ opc # "new" => storage' = storage]_vars

\* SerialEnv started with its buffer in shared memory
C34_SerialShared ==
    /\ variant = "serial"
    /\ ~is_closed
    /\ storage = "shared"

\* ParallelEnv started with its buffer in neither storage: the workers are
\* handed a tensordict they refuse
C34_ParallelUnplaced ==
    /\ variant = "parallel"
    /\ ~is_closed
    /\ storage = "none"
    /\ \E i \in Workers : workers[i] = "raised" /\ werr[i] = StorageError

\* ------------------------------------------------------------- C35
\* the running call ends on a reply whose tag it does not accept
AbortsOnTag ==
    /\ ReceivesUnexpected
    /\ ret'.status = "raised" /\ ret'.err = "protocol"

\* C35: when an orchestrator operation aborts because a reply carries an
\* unexpected tag, no unread reply is left on any channel, so that the next
\* operation reads on each channel the reply to its own command.
C35_AbortLeavesNoReply ==
    [][AbortsOnTag => \A i \in Workers : parent_channels'[i] = <<>>]_vars

\* what the source does: the raise leaves the receive loop at channel k; the
\* other channels are not read and keep their replies
C35_AbortReadsOneChannel ==
    [][AbortsOnTag =>
          /\ opc' = "idle"
          /\ \A i \in Workers \ {k} :
                 /\ parent_channels'[i] = parent_channels[i]
                 /\ awaiting'[i] = awaiting[i]]_vars

\* a call has aborted on a tag and the reply of a later worker is unread
C35_UnreadReplyLeft ==
    /\ opc = "idle"
    /\ ret.status = "raised" /\ ret.err = "protocol"
    /\ \E i \in Workers : parent_channels[i] # <<>> /\ awaiting[i] > 0

\* ------------------------------------------------------------- C36
\* worker i has processed "init", or holds it as the next command to process
InitDoneOrNext(i) ==
    \/ initialized[i]
    \/ wpc[i] = "init"
    \/ (wpc[i] = "recv" /\ child_pipe[i] # <<>> /\ Head(child_pipe[i]).cmd = "init")

\* the caller's thread is inside close(), between its first send and its return
Closing == opc \in {"close_send", "close_recv", "close_join"}

\* C36: in ParallelEnv, whatever the accepted construction flags and the
\* operations called, whenever is_closed is False (and no close is running)
\* all N workers are alive and have processed init or will before any other
\* command, and whenever is_closed is True no worker process is alive.
C36_ClosedFlagMeansWorkers ==
    variant = "parallel" =>
        /\ (~is_closed /\ ~Closing) =>
               \A i \in Workers : workers[i] = "alive" /\ InitDoneOrNext(i)
        /\ is_closed => \A i \in Workers : workers[i] # "alive"

\* the errors by which a worker process ends without any simulator call raising
WorkerOwnErrors == {StorageError, "is_done after reset", "calling step when env is done"}

\* what the source does: is_closed = True means no process is alive; while
\* is_closed is False a worker is alive, or has ended by a raise of the worker
\* loop, or has ended for a close() that did not complete
C36_OpenWithEndedWorkers ==
    variant = "parallel" =>
        /\ is_closed => \A i \in Workers : workers[i] = "none"
        /\ (~is_closed /\ ~Closing) =>
               \A i \in Workers :
                   \/ workers[i] = "alive" /\ InitDoneOrNext(i)
                   \/ workers[i] = "raised" /\ werr[i] \in WorkerOwnErrors
                   \/ workers[i] = "raised" /\ werr[i] \in {WrappedError(attr) : attr \in GenericAttrs}
                   \/ workers[i] = "exited" /\ ret.op = "close" /\ ret.status = "raised"

\* started with the buffer in neither storage: is_closed is False and every
\* worker has ended at "init"
C36_OpenWithoutWorkers ==
    /\ variant = "parallel"
    /\ ~is_closed /\ opc = "idle"
    /\ storage = "none"
    /\ \A i \in Workers : workers[i] = "raised" /\ werr[i] = StorageError

\* shared storage, reset called: is_closed is False and a worker has ended
\* because its simulator was terminated right after the reset
C36_OpenAfterDoneReset ==
    /\ variant = "parallel"
    /\ ~is_closed /\ opc = "idle"
    /\ storage = "shared"
    /\ ret.op = "reset"
    /\ \E i \in Workers : workers[i] = "raised" /\ werr[i] = "is_done after reset"

\* ------------------------------------------------------------- C37
\* the errors a worker raises about the order of "init"
InitOrderErrors == {"worker already initialized", "call 'init' before closing",
                    "call 'init' before resetting", "called 'init' before step"}

\* the step taken sends "init" on channel i
SendsInit(i) ==
    /\ Len(child_pipe'[i]) > Len(child_pipe[i])
    /\ child_pipe'[i][Len(child_pipe'[i])].cmd = "init"

\* C37: in every sequence of orchestrator operations "init" is the first
\* message on each worker's channel and is sent exactly once per worker
\* lifetime; no worker raises "worker already initialized" or an error for a
\* command that came before "init".
C37_InitOncePerLifetime ==
    [][\A i \in Workers :
          /\ (Starts /\ variant = "parallel") => SendsInit(i)
          /\ SendsInit(i) =>
                 /\ Starts
                 /\ child_pipe'[i] = <<InitMsg(i)>>
                 /\ workers'[i] = "alive" /\ ~initialized'[i]
          /\ werr'[i] \notin InitOrderErrors]_vars

\* what the source does: the orchestrator's own commands keep this order; a
\* query of the simulator method "init" is sent as a second "init", on which
\* the worker raises "worker already initialized"
C37_InitOnceUnlessForwarded ==
    [][\A i \in Workers :
          /\ (Starts /\ variant = "parallel") => SendsInit(i)
          /\ (SendsInit(i) /\ call.op # "init") =>
                 /\ Starts
                 /\ child_pipe'[i] = <<InitMsg(i)>>
                 /\ workers'[i] = "alive" /\ ~initialized'[i]
          /\ (werr'[i] \in InitOrderErrors /\ werr[i] \notin InitOrderErrors) =>
                 /\ werr'[i] = "worker already initialized"
                 /\ call.op = "init" \/ ret.op = "init"]_vars

\* a worker has ended on the second "init", the one the dispatcher sent
C37_SecondInitRaised ==
    /\ ret.op = "init" /\ ret.status = "raised"
    /\ \E i \in Workers : workers[i] = "raised" /\ werr[i] = "worker already initialized"

\* ------------------------------------------------------------- C39
\* worker i services attr in the generic branch: getattr(env, attr), called
\* if callable, answered with (attr + "_done", result) or ended by the
\* wrapped error; nothing else of the worker changes
GenericBranch(i, attr) ==
    /\ \/ /\ Replies(i, attr)
          /\ LastReply(i).tag = attr \o "_done"
          /\ LastReply(i).data = getattr_result(i, attr, wdata[i])
          /\ workers'[i] = "alive"
       \/ /\ workers'[i] = "raised" /\ werr'[i] = WrappedError(attr)
          /\ parent_channels'[i] = parent_channels[i]
    /\ env_seed'[i] = env_seed[i]
    /\ initialized'[i] = initialized[i]

\* the dispatcher made for attr is running and worker i acts on its command
ServesForwarded(i, attr) == call.op = attr /\ Handles(i, attr)

\* C39: a request forwarded by the dispatcher is never executed by a worker
\* as a command of the protocol: for every simulator attribute the caller can
\* reach through the orchestrator, also one named "seed" or "init", the
\* worker takes the generic branch.
C39_ForwardedTakesGenericBranch ==
    [][\A i \in Workers, attr \in SimulatorAttrs :
          ServesForwarded(i, attr) => GenericBranch(i, attr)]_vars

\* what the source does: the worker compares the command with the names of
\* the protocol first; a forwarded "seed" seeds the simulator with the
\* arguments and is answered "seeded", a forwarded "init" ends the worker,
\* and any other name takes the generic branch
C39_CommandNamesWin ==
    [][\A i \in Workers :
          /\ \A attr \in GenericAttrs :
                 ServesForwarded(i, attr) => GenericBranch(i, attr)
          /\ ServesForwarded(i, "seed") =>
                 /\ env_seed'[i] = wdata[i]
                 /\ Replies(i, "seed") /\ LastReply(i) = Reply("seeded", {})
          /\ ServesForwarded(i, "init") =>
                 /\ workers'[i] = "raised"
                 /\ werr'[i] = "worker already initialized"]_vars

\* env.seed(7) has returned: every simulator was seeded with the argument
\* list and the results are the empty payloads of the "seeded" replies
C39_SeedCommandExecuted ==
    /\ opc = "idle" /\ ret.op = "seed" /\ ret.status = "ok"
    /\ ret.value = ListOf([j \in 1 .. NumWorkers |-> {}])
    /\ \A i \in Workers : env_seed[i] = <<7>>

\* a generic name was served in the generic branch
C39_GenericServed ==
    /\ opc = "idle" /\ ret.op = "custom_method" /\ ret.status = "ok"
    /\ ret.value = ListOf([j \in 1 .. NumWorkers |->
                               getattr_result(j - 1, "custom_method", <<7>>)])

\* ------------------------------------------------------------- C38
\* the caller holds the result of a reset of the parallel orchestrator
ResetReturned ==
    /\ variant = "parallel"
    /\ opc = "idle"
    /\ ret.op = "reset"
    /\ ret.status = "ok"

\* worker i is in its loop and its way back to child_pipe.recv() is free:
\* it has not raised, and the is_done test after its reply will not raise
ServesNext(i) ==
    /\ workers[i] = "alive"
    /\ wpc[i] \in {"reset_sent", "recv"}
    /\ ~env_is_done[i]

\* C38: whenever ParallelEnv.reset returns normally, every worker that was
\* reset is alive in its command loop and will service the next command: none
\* has exited, or is about to exit, because its simulator is done after the
\* reset.
C38_ResetWorkersServeNext ==
    ResetReturned => \A i \in ret.mask : ServesNext(i)

\* a partial reset has returned and every worker it reset is back at recv()
C38_Witness ==
    /\ ResetReturned
    /\ ret.mask # {} /\ ret.mask # Workers
    /\ \A i \in ret.mask : ServesNext(i) /\ wpc[i] = "recv" /\ nreset[i] = 1

\* ------------------------------------------------------------- C40
\* one step of the process of worker i: _run_worker_pipe_shared_mem(i, ...)
run_worker(i) ==
    \/ Worker_recv(i)
    \/ Worker_init(i)
    \/ Worker_reset(i)
    \/ Worker_reset_sent(i)
    \/ Worker_step(i)
    \/ Worker_close(i)
    \/ Worker_exit(i)
    \/ Worker_seed(i)
    \/ Worker_load_state_dict(i)
    \/ Worker_state_dict(i)
    \/ Worker_getattr(i)

\* one step of the caller's thread inside a call of the parallel
\* orchestrator: the sends, the receives, the join
Parallel_proceeds ==
    \/ Parallel_step_update
    \/ Parallel_step_send
    \/ Parallel_step_recv
    \/ Parallel_reset_send
    \/ Parallel_reset_recv
    \/ Parallel_reset_check
    \/ Parallel_set_seed_send
    \/ Parallel_set_seed_recv
    \/ Parallel_state_dict_send
    \/ Parallel_state_dict_recv
    \/ Parallel_load_state_dict_send
    \/ Parallel_load_state_dict_recv
    \/ Parallel_getattr_send
    \/ Parallel_getattr_recv
    \/ Parallel_close_send
    \/ Parallel_close_recv
    \/ Parallel_close_join

\* the parallel orchestrator, the caller making any calls, one query at a time
\* also for the simulator methods named like a command
InitLive == Init /\ variant = "parallel"

NextLive ==
    \/ WorkerNext
    \/ ParallelNext
    \/ \E attr \in TagNamedAttrs : Parallel_getattr_call(attr, <<7>>)

\* every worker process is scheduled again and again; the caller's thread,
\* once inside a call, runs on whenever it is not blocked in a recv or a join
SpecLive ==
    /\ InitLive
    /\ [][NextLive]_vars
    /\ \A i \in Workers : WF_vars(run_worker(i))
    /\ WF_vars(Parallel_proceeds)

\* a call of the parallel orchestrator is running
InCall == opc # "idle"

\* the caller's thread or some worker process has a step to take
CanMove == ENABLED Parallel_proceeds \/ \E i \in Workers : ENABLED run_worker(i)

\* the statements the caller's thread has left in the running call if every
\* send and recv succeeds: close sends and receives worker by worker, the
\* other calls send to every worker and then receive from every worker
SendLoops == {"step_send", "reset_send", "seed_send", "state_dict_send",
              "load_state_dict_send", "getattr_send"}
RecvLoops == {"step_recv", "reset_recv", "seed_recv", "state_dict_recv",
              "load_state_dict_recv", "getattr_recv"}
CallerLeft ==
    CASE opc = "idle" -> 0
      [] opc = "step_update" -> 2 * NumWorkers + 2
      [] opc \in SendLoops -> 2 * NumWorkers - k + 1
      [] opc \in RecvLoops -> NumWorkers - k + 1
      [] opc = "close_send" -> 2 * (NumWorkers - k) + 1
      [] opc = "close_recv" -> 2 * (NumWorkers - k)
      [] OTHER -> 1

\* the steps worker i has left before it blocks in child_pipe.recv() on an
\* empty channel: at most three for a command it has not read yet
WorkerLeft(i) ==
    IF workers[i] # "alive" THEN 0
    ELSE 3 * Len(child_pipe[i]) +
         (CASE wpc[i] = "recv" -> 0
            [] wpc[i] \in {"reset", "close"} -> 2
            [] OTHER -> 1)

RECURSIVE SumLeft(_)
SumLeft(S) == IF S = {} THEN 0
              ELSE LET i == CHOOSE j \in S : TRUE IN WorkerLeft(i) + SumLeft(S \ {i})

\* the work left in the running call: a send of the caller gives a worker
\* three steps of work and costs the caller four
WorkLeft == 4 * CallerLeft + SumLeft(Workers)

\* C40: under fair scheduling of the worker processes every reset, step,
\* set_seed, state_dict, load_state_dict, generic call and close on the
\* parallel orchestrator eventually returns to its caller, with its result or
\* with an error: orchestrator and workers never wait on each other for ever.
\* While a call is running the caller's thread or a worker always has a step
\* to take, and every step leaves less work than there was, so under SpecLive
\* the call ends.
C40_EveryCallReturns ==
    [][InCall' => /\ CanMove'
                  /\ InCall => WorkLeft' < WorkLeft]_vars

\* close() has sent to every worker, waited for its reply and for the end of
\* its process, and has returned
C40_Witness ==
    /\ variant = "parallel"
    /\ ~InCall
    /\ ret.op = "close" /\ ret.status = "ok"
    /\ is_closed
    /\ \A i \in Workers : sent[i] = 1 /\ workers[i] = "none"

====
